---- MODULE Spec2Model ----
(***************************************************************************)
(* Model of the Bridgy expert router (bridgyv2-main/experts/router.py) and *)
(* the experts it dispatches to.  Text is modelled as TLA+ strings and the *)
(* keyword heuristics are computed character by character, as the Python   *)
(* substring tests compute them.                                           *)
(***************************************************************************)
EXTENDS Integers, Sequences, FiniteSets, TLC

VARIABLES
    \* the process: its environment and the router singleton
    env,            \* credentials and services available to the process
    startEnv,       \* the environment the process started in
    router,         \* the cached ExpertRouter instance; 0 stands for None
    built,          \* how many ExpertRouter instances have been constructed
    held,           \* the instance the current caller got from get_router; 0 if none
    constructError, \* the exception the last get_router call raised; "" if none
    \* the Nexus Dashboard client the requests share, and the requests in flight
    jwt_token,      \* NexusDashboardAPI.jwt_token; "" stands for None
    last_error,     \* NexusDashboardAPI.error_message; "" stands for None
    task,           \* per concurrent request: its position, server script and result
    \* construction: whether each vendor client failed to initialize
    intersightInitFailed,      \* IntersightExpert.api
    nexusInitFailed,           \* NexusDashboardExpert.api
    infraIntersightInitFailed, \* InfrastructureAPI.intersight_api
    infraNexusInitFailed,      \* InfrastructureAPI.nexus_dashboard_api
    \* one route_and_respond request
    rpc,        \* "idle", "dispatch", "fallback", "done" or "raised"
    reqQuestion, \* the query of the request
    expertChoice, \* the classifier's outcome for it
    expertRes,  \* the outcome of the selected expert's get_response
    generalRes, \* the outcome of the General Expert called as a fallback
    result,     \* the (text, label) pair handed to the caller
    steps,          \* the steps of the current (or the last) request, in order
    callLog,    \* the LLM, vendor and retrieval calls made so far, in order
    apiResponse, \* what the selected expert's api.query returned; "" if not called
    \* the classifier on its own
    cq,         \* the question handed to the classifier
    creply,     \* what the routing LLM call does
    cres,       \* the classifier's outcome, or NoResult
    cpc,        \* "off", "new" before the call, "classified" after
    \* the Intersight expert of bridgy-main on its own
    eq,         \* the question handed to get_response
    ein,        \* what its collaborators do during the call
    eres,       \* the outcome of get_response, or NoAnswer
    epc,        \* "off", "new" before the call, "answered" after
    \* ExpertRouter.get_response of bridgyv2-main on its own
    gq,         \* the question handed to get_response
    gin,        \* what the experts do during the call
    gres,       \* the outcome of get_response, or NoReply
    gpc,        \* "off", "new" before the call, "returned" after
    \* the thread API of bridgy-main/main.py
    MONGO_ENABLED,   \* MONGO_ENABLED and db: threads and messages go to MongoDB too
    memory_threads,  \* the keys of memory_threads
    memory_messages, \* memory_messages: thread id -> list of message documents
    db_threads,      \* the thread ids in db[THREADS_COLLECTION]
    db_messages,     \* the documents in db[MESSAGES_COLLECTION]
    clock,           \* int(time.time() * 1000)
    threadsMade,     \* the number of thread ids generated so far
    sendsMade,       \* the number of send_message requests made so far
    req,             \* per client: its request, position and result
    \* generate_follow_ups of bridgy-main/main.py on its own
    fin,        \* what the router does with the follow-up prompt
    fres,       \* the outcome of generate_follow_ups, or NoFollowUps
    fpc,        \* "off", "new" before the call, "returned" after
    \* websocket_chat_handler of bridgy-api/main.py, one connection
    wpc,        \* "off", "receive", "ollama", "ended" or "raised"
    connected,  \* the client has not disconnected
    wmsg,       \* the message being handled: its kind and the Ollama outcome
    wsent,      \* the JSON objects sent while the client was connected, in order
    wlate,      \* the number of sends attempted after the client disconnected
    handled     \* the number of messages received

initvars ==
    <<intersightInitFailed, nexusInitFailed, infraIntersightInitFailed,
      infraNexusInitFailed>>

lvars == <<env, startEnv, router, built, held, constructError>>

tvars == <<jwt_token, last_error, task>>

rvars ==
    <<rpc, reqQuestion, expertChoice, expertRes, generalRes, result, callLog,
      apiResponse, steps>>

cvars == <<cq, creply, cres, cpc>>

evars == <<eq, ein, eres, epc>>

ovars == <<lvars, initvars, rvars, cvars, evars, tvars>>

gvars == <<gq, gin, gres, gpc>>

hvars ==
    <<MONGO_ENABLED, memory_threads, memory_messages, db_threads, db_messages,
      clock, threadsMade, sendsMade, req>>

fvars == <<fin, fres, fpc>>

wvars == <<wpc, connected, wmsg, wsent, wlate, handled>>

xvars == <<gvars, hvars, fvars, wvars>>

vars == <<lvars, initvars, rvars, cvars, evars, tvars, xvars>>

(***************************************************************************)
(* Bounds of the model.                                                    *)
(***************************************************************************)
\* Longest question built from the word list, in words.
MaxWords == 3

(***************************************************************************)
(* Python string operations.                                               *)
(***************************************************************************)
Char(s, i) == SubSeq(s, i, i)

\* str.lower(), on the ASCII letters.
LowerMap ==
    ("A" :> "a") @@ ("B" :> "b") @@ ("C" :> "c") @@ ("D" :> "d") @@
    ("E" :> "e") @@ ("F" :> "f") @@ ("G" :> "g") @@ ("H" :> "h") @@
    ("I" :> "i") @@ ("J" :> "j") @@ ("K" :> "k") @@ ("L" :> "l") @@
    ("M" :> "m") @@ ("N" :> "n") @@ ("O" :> "o") @@ ("P" :> "p") @@
    ("Q" :> "q") @@ ("R" :> "r") @@ ("S" :> "s") @@ ("T" :> "t") @@
    ("U" :> "u") @@ ("V" :> "v") @@ ("W" :> "w") @@ ("X" :> "x") @@
    ("Y" :> "y") @@ ("Z" :> "z")

LowerChar(c) == IF c \in DOMAIN LowerMap THEN LowerMap[c] ELSE c

RECURSIVE LowerFrom(_, _)
LowerFrom(s, i) ==
    IF i > Len(s) THEN "" ELSE LowerChar(Char(s, i)) \o LowerFrom(s, i + 1)

Lower(s) == LowerFrom(s, 1)

\* The characters str.strip() and str.split() treat as whitespace.
Whitespace == {" ", "\t", "\n", "\r"}

IsSpace(c) == c \in Whitespace

\* p in s, for strings.
Contains(s, p) ==
    \E i \in 1..(Len(s) - Len(p) + 1) : SubSeq(s, i, i + Len(p) - 1) = p

\* s.startswith(p)
StartsWith(s, p) == Len(p) <= Len(s) /\ SubSeq(s, 1, Len(p)) = p

\* any(p in s for p in ps)
ContainsAny(s, ps) == \E p \in ps : Contains(s, p)

\* str.strip()
Strip(s) ==
    LET keep == {i \in 1..Len(s) : ~IsSpace(Char(s, i))}
    IN  IF keep = {} THEN ""
        ELSE LET lo == CHOOSE i \in keep : \A j \in keep : i <= j
                 hi == CHOOSE i \in keep : \A j \in keep : j <= i
             IN  SubSeq(s, lo, hi)

\* str.split(): the maximal runs of non-whitespace characters, in order.
RECURSIVE SplitFrom(_, _)
SplitFrom(s, i) ==
    IF i > Len(s) THEN <<>>
    ELSE IF IsSpace(Char(s, i)) THEN SplitFrom(s, i + 1)
    ELSE LET stops == {j \in i..Len(s) : IsSpace(Char(s, j))}
             e == IF stops = {} THEN Len(s) + 1
                  ELSE CHOOSE j \in stops : \A k \in stops : j <= k
         IN  <<SubSeq(s, i, e - 1)>> \o SplitFrom(s, e)

Split(s) == SplitFrom(s, 1)

\* ' '.join(ws)
RECURSIVE JoinFrom(_, _)
JoinFrom(ws, i) ==
    IF i > Len(ws) THEN ""
    ELSE IF i = Len(ws) THEN ws[i]
    ELSE ws[i] \o " " \o JoinFrom(ws, i + 1)

Join(ws) == JoinFrom(ws, 1)

\* ws[-n:]
LastN(ws, n) == IF Len(ws) <= n THEN ws ELSE SubSeq(ws, Len(ws) - n + 1, Len(ws))

\* w in ws, for a list of strings.
InList(w, ws) == \E i \in 1..Len(ws) : ws[i] = w

(***************************************************************************)
(* The keyword predicates of ExpertRouter.                                 *)
(***************************************************************************)
ExpertKinds == {"intersight", "ai_pods", "nexus_dashboard", "infrastructure", "general"}

\* ExpertRouter._is_intersight_query
IsIntersightQuery(query) ==
    LET query_lower == Lower(query)
        server_patterns ==
            \/ Contains(query_lower, "server")
            \/ Contains(query_lower, "servers")
            \/ Contains(query_lower, "what servers")
            \/ Contains(query_lower, "servers in my environment")
            \/ Contains(query_lower, "servers are running")
            \/ (Contains(query_lower, "running in my environment")
                    /\ ~Contains(query_lower, "switches"))
            \/ Contains(query_lower, "ucs")
            \/ Contains(query_lower, "hx")
            \/ Contains(query_lower, "hyperflex")
            \/ Contains(query_lower, "blade")
            \/ (Contains(query_lower, "rack") /\ Contains(query_lower, "server"))
            \/ Contains(query_lower, "firmware")
            \/ (Contains(query_lower, "gpu") \/ Contains(query_lower, "gpus"))
            \/ Contains(query_lower, "hardware")
    IN  IF Contains(query_lower, "intersight") THEN TRUE
        ELSE IF server_patterns THEN TRUE
        ELSE FALSE

\* ExpertRouter._is_ai_pods_query
IsAIPodsQuery(query) ==
    LET query_lower == Lower(query)
        llm_size_patterns ==
            {"7b", "7 b", "13b", "13 b", "40b", "40 b", "70b", "70 b",
             "billion parameter", "billion parameters", "b model", "b llm"}
        general_knowledge_indicators ==
            {"why is", "what is", "how does", "explain",
             "tell me about", "describe", "definition of"}
        cisco_terms == {"cisco", "ai pod", "ai pods", "llm", "large language model"}
        ai_hardware_terms ==
            {"hardware for llm", "gpu for llm", "infrastructure for llm", "server for ai"}
        ai_pods_keywords ==
            {"ai pods", "ai pod", "aipod", "aipods",
             "llm", "large language model", "ml model",
             "machine learning", "deep learning", "neural network",
             "gpu cluster", "ai infrastructure", "ml infrastructure",
             "ai compute", "ml compute", "inference",
             "gpu for", "hardware for", "server for ai", "hardware recommendation",
             "what should i buy", "which pod", "recommendation for llm"}
    IN  IF ContainsAny(query_lower, llm_size_patterns) THEN TRUE
        ELSE IF ContainsAny(query_lower, general_knowledge_indicators)
        THEN IF ContainsAny(query_lower, cisco_terms) THEN TRUE
             ELSE IF ContainsAny(query_lower, ai_hardware_terms) THEN TRUE
             ELSE FALSE
        ELSE ContainsAny(query_lower, ai_pods_keywords)

\* ExpertRouter._is_server_inventory_query
IsServerInventoryQuery(q) ==
    LET query == Strip(Lower(q))
    IN  \/ (StartsWith(query, "what")
                /\ (Contains(query, "environment") \/ Contains(query, "servers")))
        \/ (Contains(query, "running in ")
                /\ (Contains(query, "environment") \/ Contains(query, "my")))
        \/ Contains(query, "servers do i have")
        \/ Contains(query, "in my environment")
        \/ (Contains(query, "show")
                /\ (Contains(query, "servers") \/ Contains(query, "infrastructure")))
        \/ (Contains(query, "list")
                /\ (Contains(query, "servers") \/ Contains(query, "infrastructure")))
        \/ (Contains(query, "what's") /\ Contains(query, "running"))
        \/ (Contains(query, "what is") /\ Contains(query, "running"))
        \/ (Contains(query, "deployed") /\ Contains(query, "servers"))

\* ExpertRouter._is_nexus_dashboard_query
IsNexusDashboardQuery(query) ==
    LET query_lower == Lower(query)
        fabric_patterns ==
            \/ Contains(query_lower, "fabric")
            \/ (Contains(query_lower, "fabrics") /\ Contains(query_lower, "environment"))
            \/ Contains(query_lower, "vlan")
            \/ (Contains(query_lower, "msd") /\ Contains(query_lower, "association"))
            \/ (Contains(query_lower, "syslog") /\ Contains(query_lower, "network"))
    IN  IF Contains(query_lower, "nexus dashboard") \/ Contains(query_lower, "ndfc")
        THEN TRUE
        ELSE IF fabric_patterns THEN TRUE
        ELSE FALSE

\* ExpertRouter._is_infrastructure_query
IsInfrastructureQuery(query) ==
    LET query_lower == Lower(query)
        switch_patterns ==
            \/ (Contains(query_lower, "switches") /\ Contains(query_lower, "environment"))
            \/ (Contains(query_lower, "switches") /\ Contains(query_lower, "running"))
            \/ (Contains(query_lower, "network device")
                    /\ Contains(query_lower, "environment"))
    IN  IF \/ (Contains(query_lower, "intersight") /\ Contains(query_lower, "nexus"))
           \/ (Contains(query_lower, "intersight") /\ Contains(query_lower, "dashboard"))
        THEN TRUE
        ELSE IF Contains(query_lower, "fabric") \/ Contains(query_lower, "vlan")
        THEN FALSE
        ELSE IF \/ Contains(query_lower, "server") \/ Contains(query_lower, "servers")
                \/ Contains(query_lower, "firmware") \/ Contains(query_lower, "gpu")
        THEN FALSE
        ELSE IF switch_patterns THEN TRUE
        ELSE FALSE

(***************************************************************************)
(* The classifier.  The routing LLM call either raises or returns a        *)
(* message whose content is a string: llm = [raises, content, error].  The *)
(* outcome is [raised, kind, via]: raised says that the classifier let an  *)
(* exception out to route_and_respond, via names the return statement:     *)
(* "exact" (the reply is an identifier), "tail" (an identifier or alias in *)
(* the last words of the reply), "heuristic" (the keyword predicates after *)
(* a reply that names no expert) or "except" (the except branch).          *)
(***************************************************************************)
Returned(kind, via) == [raised |-> FALSE, kind |-> kind, via |-> via]

\* NoMatchHeuristic with the server-inventory test ahead of the infrastructure test.
NoMatchHeuristicInventoryFirst(query) ==
    IF IsServerInventoryQuery(query) THEN "intersight"
    ELSE IF IsInfrastructureQuery(query) THEN "infrastructure"
    ELSE IF IsNexusDashboardQuery(query) THEN "nexus_dashboard"
    ELSE "general"

\* The branch of _determine_expert_with_cot taken when the reply names no expert.
NoMatchHeuristic(query) ==
    IF IsInfrastructureQuery(query) THEN "infrastructure"
    ELSE IF IsServerInventoryQuery(query) THEN "intersight"
    ELSE IF IsNexusDashboardQuery(query) THEN "nexus_dashboard"
    ELSE "general"

\* The except branch of _determine_expert_with_cot.
ExceptHeuristic(query) ==
    LET ql == Lower(query)
    IN  IF IsInfrastructureQuery(query) THEN "infrastructure"
        ELSE IF \/ Contains(ql, "intersight")
                \/ ContainsAny(ql, {"server", "servers", "hardware", "datacenter"})
        THEN "intersight"
        ELSE IF \/ Contains(ql, "ai pods") \/ Contains(ql, "ai pod")
                \/ ContainsAny(ql, {"llm", "model", "parameter", "parameters"})
                \/ ContainsAny(ql, {"7b", "13b", "40b", "70b", "80b"})
        THEN "ai_pods"
        ELSE IF \/ Contains(ql, "nexus") \/ Contains(ql, "dashboard")
                \/ ContainsAny(ql, {"fabric", "switch", "network", "telemetry"})
        THEN "nexus_dashboard"
        ELSE "general"

\* ReplyKind looking for the names in every token of the reply.
ReplyKindAllTokens(content) ==
    LET expert_choice == Lower(Strip(content))
        last_words == Split(expert_choice)
        joined == Join(last_words)
    IN  IF expert_choice \in ExpertKinds THEN expert_choice
        ELSE IF InList("intersight", last_words) THEN "intersight"
        ELSE IF InList("ai_pods", last_words) \/ Contains(joined, "ai pods")
        THEN "ai_pods"
        ELSE IF InList("nexus_dashboard", last_words)
                    \/ Contains(joined, "nexus dashboard")
        THEN "nexus_dashboard"
        ELSE IF InList("infrastructure", last_words) THEN "infrastructure"
        ELSE IF InList("general", last_words) THEN "general"
        ELSE "none"

\* The reply of the routing LLM, read as _determine_expert_with_cot reads it:
\* the kind it names, or "none".
ReplyKind(content) ==
    LET expert_choice == Lower(Strip(content))
        last_words == LastN(Split(expert_choice), 5)
        joined == Join(last_words)
    IN  IF expert_choice \in ExpertKinds THEN expert_choice
        ELSE IF InList("intersight", last_words) THEN "intersight"
        ELSE IF InList("ai_pods", last_words) \/ Contains(joined, "ai pods")
        THEN "ai_pods"
        ELSE IF InList("nexus_dashboard", last_words)
                    \/ Contains(joined, "nexus dashboard")
        THEN "nexus_dashboard"
        ELSE IF InList("infrastructure", last_words) THEN "infrastructure"
        ELSE IF InList("general", last_words) THEN "general"
        ELSE "none"

\* DetermineExpertWithCot without its except clause: a failed LLM call escapes.
DetermineExpertWithCotNoExcept(query, llm) ==
    IF llm.raises THEN [raised |-> TRUE, kind |-> "unset", via |-> "except"]
    ELSE LET named == ReplyKind(llm.content)
         IN  IF Lower(Strip(llm.content)) \in ExpertKinds THEN Returned(named, "exact")
             ELSE IF named # "none" THEN Returned(named, "tail")
             ELSE Returned(NoMatchHeuristic(query), "heuristic")

\* ExpertRouter._determine_expert_with_cot
DetermineExpertWithCot(query, llm) ==
    IF llm.raises THEN Returned(ExceptHeuristic(query), "except")
    ELSE LET named == ReplyKind(llm.content)
         IN  IF Lower(Strip(llm.content)) \in ExpertKinds THEN Returned(named, "exact")
             ELSE IF named # "none" THEN Returned(named, "tail")
             ELSE Returned(NoMatchHeuristic(query), "heuristic")

(***************************************************************************)
(* Server-name extraction of IntersightExpert.get_response: re.search with *)
(* each pattern of server_patterns in turn, on the lowercased question.    *)
(***************************************************************************)
\* [a-zA-Z0-9_\-]
NameChars ==
    {"a", "b", "c", "d", "e", "f", "g", "h", "i", "j", "k", "l", "m",
     "n", "o", "p", "q", "r", "s", "t", "u", "v", "w", "x", "y", "z",
     "A", "B", "C", "D", "E", "F", "G", "H", "I", "J", "K", "L", "M",
     "N", "O", "P", "Q", "R", "S", "T", "U", "V", "W", "X", "Y", "Z",
     "0", "1", "2", "3", "4", "5", "6", "7", "8", "9", "_", "-"}

\* The literal lit matches s at position i.
MatchLit(s, i, lit) ==
    i >= 1 /\ i + Len(lit) - 1 <= Len(s) /\ SubSeq(s, i, i + Len(lit) - 1) = lit

\* The first position at or after i that holds no whitespace (greedy \s*).
SkipSpaces(s, i) ==
    LET stops == {j \in i..Len(s) : ~IsSpace(Char(s, j))}
    IN  IF stops = {} THEN Len(s) + 1
        ELSE CHOOSE j \in stops : \A k \in stops : j <= k

\* The first position at or after i that holds no name character (greedy [..]*).
NameEnd(s, i) ==
    LET stops == {j \in i..Len(s) : Char(s, j) \notin NameChars}
    IN  IF stops = {} THEN Len(s) + 1
        ELSE CHOOSE j \in stops : \A k \in stops : j <= k

NoMatch == [ok |-> FALSE, name |-> "", next |-> 0]

\* lit\s+([a-zA-Z0-9_\-]+) at position i: the group and the position after it.
LitSpacesName(s, i, lit) ==
    IF ~MatchLit(s, i, lit) THEN NoMatch
    ELSE LET j == i + Len(lit)
             k == SkipSpaces(s, j)
             e == NameEnd(s, k)
         IN  IF k > j /\ e > k
             THEN [ok |-> TRUE, name |-> SubSeq(s, k, e - 1), next |-> e]
             ELSE NoMatch

\* m followed by \s+ and one of the literals lits.
ThenSpacesLit(s, m, lits) ==
    IF ~m.ok THEN NoMatch
    ELSE LET n == SkipSpaces(s, m.next)
         IN  IF n > m.next /\ \E lit \in lits : MatchLit(s, n, lit) THEN m ELSE NoMatch

\* (?:for|on)\s+server\s+([a-zA-Z0-9_\-]+)
ForServerAt(s, i) ==
    LET lead == IF MatchLit(s, i, "for") THEN 3
                ELSE IF MatchLit(s, i, "on") THEN 2 ELSE 0
        k == SkipSpaces(s, i + lead)
    IN  IF lead > 0 /\ k > i + lead THEN LitSpacesName(s, k, "server") ELSE NoMatch

\* server\s+([a-zA-Z0-9_\-]+)\s+(?:what|which)
ServerWhatAt(s, i) == ThenSpacesLit(s, LitSpacesName(s, i, "server"), {"what", "which"})

\* (?:update|upgrade)\s+([a-zA-Z0-9_\-]+)\s+to
UpdateToAt(s, i) ==
    LET m == IF MatchLit(s, i, "update") THEN LitSpacesName(s, i, "update")
             ELSE LitSpacesName(s, i, "upgrade")
    IN  ThenSpacesLit(s, m, {"to"})

\* server\s+([a-zA-Z0-9_\-]+)
ServerAt(s, i) == LitSpacesName(s, i, "server")

\* server_patterns[p] matched at position i.
PatternAt(s, i, p) ==
    IF p = 1 THEN ForServerAt(s, i)
    ELSE IF p = 2 THEN ServerWhatAt(s, i)
    ELSE IF p = 3 THEN UpdateToAt(s, i)
    ELSE ServerAt(s, i)

\* re.search scanning from position i: the match at the leftmost position
\* where server_patterns[p] matches.
RECURSIVE SearchFrom(_, _, _)
SearchFrom(s, i, p) ==
    IF i > Len(s) THEN NoMatch
    ELSE IF PatternAt(s, i, p).ok THEN PatternAt(s, i, p)
    ELSE SearchFrom(s, i + 1, p)

\* re.search(server_patterns[p], s)
Search(s, p) == SearchFrom(s, 1, p)

\* The word after the first word "server" that is a name; "" when there is none.
RECURSIVE WordAfterServer(_, _)
WordAfterServer(words, i) ==
    IF i > Len(words) THEN ""
    ELSE IF /\ i > 1 /\ words[i - 1] = "server"
            /\ \A j \in 1..Len(words[i]) : Char(words[i], j) \in NameChars
    THEN words[i]
    ELSE WordAfterServer(words, i + 1)

\* ExtractServerName with the "update xyz to" pattern tried first.
ExtractServerNameUpdateFirst(ql) ==
    LET m1 == Search(ql, 1)
        m2 == Search(ql, 2)
        m3 == Search(ql, 3)
        m4 == Search(ql, 4)
    IN  IF m3.ok THEN m3.name
        ELSE IF m1.ok THEN m1.name
        ELSE IF m2.ok THEN m2.name
        ELSE IF m4.ok THEN m4.name
        ELSE WordAfterServer(Split(ql), 1)

\* The server name IntersightExpert.get_response extracts from the lowercased
\* question ql; "" stands for None.
ExtractServerName(ql) ==
    LET m1 == Search(ql, 1)
        m2 == Search(ql, 2)
        m3 == Search(ql, 3)
        m4 == Search(ql, 4)
    IN  IF m1.ok THEN m1.name
        ELSE IF m2.ok THEN m2.name
        ELSE IF m3.ok THEN m3.name
        ELSE IF m4.ok THEN m4.name
        ELSE WordAfterServer(Split(ql), 1)

(***************************************************************************)
(* The experts.  A call of get_response ends in                            *)
(*   [raised, text, error, cause, calls]:                                  *)
(* it returns text, or raises an exception whose message is error; cause   *)
(* is the message of the exception its except clause caught ("" when none  *)
(* was raised inside it); calls lists the vendor, retrieval and LLM calls  *)
(* it made, in order.  A vendor call ends in one of VendorOutcomes; an LLM *)
(* call raises or returns content.                                         *)
(***************************************************************************)
VendorOutcomes == {"data", "empty", "error_value", "raises"}

VendorError == "503 Service Unavailable"

IntersightInitError == "Intersight API key ID not found in environment variables"

NexusInitError == "Failed to authenticate with Nexus Dashboard"

Answer(text, calls) ==
    [raised |-> FALSE, text |-> text, error |-> "", cause |-> "", calls |-> calls]

\* get_response caught an exception with message cause and raised
\* Exception(prefix + cause).
Raise(prefix, cause, calls) ==
    [raised |-> TRUE, text |-> "", error |-> prefix \o cause, cause |-> cause,
     calls |-> calls]

\* get_response caught an exception with message cause and returned
\* prefix + cause.
AnswerError(prefix, cause, calls) ==
    [raised |-> FALSE, text |-> prefix \o cause, error |-> "", cause |-> cause,
     calls |-> calls]

\* The method of the Intersight client that IntersightAPI.query calls for the
\* lowercased question ql; "none" when no group of patterns matches.
IntersightQueryBranch(ql) ==
    IF ContainsAny(ql, {"what servers", "server inventory", "list of servers",
                        "servers in my", "my servers", "all servers"})
    THEN "get_servers"
    ELSE IF Contains(ql, "firmware")
    THEN IF ContainsAny(ql, {"upgrade", "can be upgraded", "available upgrade",
                             "newer firmware", "update firmware"})
         THEN "get_servers_with_firmware_upgrades"
         ELSE "get_firmware_status"
    ELSE IF Contains(ql, "gpu") \/ Contains(ql, "gpus") THEN "get_server_gpus"
    ELSE IF ContainsAny(ql, {"vm", "virtual machine", "virtual machines", "vms"})
    THEN "get_virtual_machines"
    ELSE IF ContainsAny(ql, {"network", "vlan", "uplink", "connectivity", "interface"})
    THEN "get_network_elements"
    ELSE IF ContainsAny(ql, {"health", "alert", "status", "condition"})
    THEN "get_health_alerts"
    ELSE IF ContainsAny(ql, {"device", "connector", "connection", "registered"})
    THEN "get_device_connectors"
    ELSE IF ContainsAny(ql, {"profile", "profiles", "template", "templates",
                             "configuration"})
    THEN "get_server_profiles"
    ELSE "none"

\* IntersightAPI.query: [text, calls].  It returns a string on every path.
IntersightAPIQuery(question, initFailed, vendor) ==
    LET branch == IntersightQueryBranch(Lower(question))
        call == <<"intersight." \o branch>>
    IN  IF initFailed
        THEN [text |-> "Error: Intersight API initialization failed - "
                          \o IntersightInitError
                          \o ". Please check your API credentials.",
              calls |-> <<>>]
        ELSE IF branch = "none"
        THEN [text |-> "Please specify what information you'd like to know about "
                          \o "your Cisco Intersight infrastructure",
              calls |-> <<>>]
        ELSE IF branch = "get_virtual_machines"
        THEN \* query names _format_vms_response, which IntersightAPI does not define
             [text |-> "Error processing query: 'IntersightAPI' object has no "
                          \o "attribute '_format_vms_response'",
              calls |-> <<>>]
        ELSE IF vendor = "raises"
        THEN [text |-> "Error processing query: " \o VendorError, calls |-> call]
        ELSE IF vendor = "error_value"
        THEN [text |-> "Error processing query: 'str' object has no attribute 'get'",
              calls |-> call]
        ELSE IF vendor = "empty"
        THEN [text |-> "No " \o branch \o " results found", calls |-> call]
        ELSE [text |-> "### " \o branch \o "\n\n| Name | Model |\n", calls |-> call]

\* IntersightExpert._format_firmware_response
FormatFirmwareResponse(server_name) ==
    "## Available Firmware Updates for " \o server_name \o "\n\n"
        \o "### Compatible Firmware Packages\n\n"

\* IntersightExpert.get_response.  direct is the outcome of the direct
\* get_firmware_for_server call, vendor that of the call made by api.query.
IntersightGetResponse(question, initFailed, direct, vendor, llm) ==
    LET ql == Lower(question)
        is_firmware_query == ContainsAny(ql, {"firmware", "update", "upgrade"})
        server_name == IF is_firmware_query /\ Contains(ql, "server")
                       THEN ExtractServerName(ql) ELSE ""
        tryDirect == is_firmware_query /\ server_name # ""
        \* self.api.client does not exist when the client failed to initialize:
        \* the AttributeError is caught and the normal flow continues.
        directCalls == IF tryDirect /\ ~initFailed
                       THEN <<"intersight.get_firmware_for_server">> ELSE <<>>
        api == IntersightAPIQuery(question, initFailed, vendor)
        afterQuery == directCalls \o api.calls
    IN  IF tryDirect /\ ~initFailed /\ direct = "data"
        THEN Answer(FormatFirmwareResponse(server_name), directCalls)
        ELSE IF tryDirect /\ Contains(api.text, "## Available Firmware Updates for")
        THEN Answer(api.text, afterQuery)
        ELSE IF llm.raises
        THEN Raise("Intersight Expert error: ", llm.error,
                   afterQuery \o <<"intersight.llm">>)
        ELSE Answer(llm.content, afterQuery \o <<"intersight.llm">>)

\* The GPU detector of the bridgy-main Intersight expert.
IsGpuQuery(ql) ==
    ContainsAny(ql, {"gpu", "graphics card", "nvidia", "amd", "video card",
                     "accelerator", "cuda", "graphics processing", "gpus",
                     "graphics cards"})

\* The firmware detector of both Intersight experts.
IsFirmwareQuery(ql) == ContainsAny(ql, {"firmware", "update", "upgrade"})

\* The server-inventory detector of the bridgy-main Intersight expert.
IsInventoryQuery(ql) ==
    /\ ContainsAny(ql, {"what servers", "server inventory", "list of servers",
                        "servers in my", "my servers", "all servers", "servers are",
                        "servers running", "running servers", "what servers are",
                        "what are the servers", "show me the servers", "environment"})
    /\ ~(Contains(ql, "firmware")
          /\ ContainsAny(ql, {"upgrade", "update", "can be upgraded"}))
    /\ ~IsGpuQuery(ql)

\* What the collaborators of the bridgy-main Intersight expert may do in one
\* call: the three narrow vendor calls, whether the API object has the GPU
\* formatter the expert asks it for, api.query (tools/intersight_api.py of
\* bridgy-main is not in the source tree, so any outcome is allowed) and the LLM.
QueryOutcomes == {"text", "firmware_details", "raises"}

\* The server name both Intersight experts extract from the lowercased
\* question ql of a firmware query; "" stands for None.
FirmwareServerName(ql) ==
    IF IsFirmwareQuery(ql) /\ Contains(ql, "server") THEN ExtractServerName(ql) ELSE ""

\* IntersightExpert.get_response of bridgy-main after question.lower() gave ql
\* and the server-name extraction gave server_name.  Each detector that
\* matches makes its narrow call and returns the formatted result if the call
\* gave data; otherwise the flow continues to api.query and the LLM.  The
\* except clause returns the error as text.
IntersightAnswerV1(ql, server_name, in) ==
    LET is_gpu_query == IsGpuQuery(ql)
        tryDirect == IsFirmwareQuery(ql) /\ server_name # ""
        inventory == IsInventoryQuery(ql)
        gpuCalls == IF is_gpu_query THEN <<"intersight.get_server_gpus">> ELSE <<>>
        directCalls == IF tryDirect
                       THEN gpuCalls \o <<"intersight.get_firmware_for_server">>
                       ELSE gpuCalls
        inventoryCalls == IF inventory THEN directCalls \o <<"intersight.get_servers">>
                          ELSE directCalls
        queryCalls == inventoryCalls \o <<"intersight.query">>
    IN  IF is_gpu_query /\ in.gpu = "data" /\ in.gpuFormatter
        THEN Answer("### Servers with GPUs\n\n| Server | GPU |\n", gpuCalls)
        ELSE IF tryDirect /\ in.direct = "data"
        THEN Answer(FormatFirmwareResponse(server_name), directCalls)
        ELSE IF inventory /\ in.inventory = "data"
        THEN Answer("### Server Inventory\n\n| Name | Model |\n", inventoryCalls)
        ELSE IF in.query = "raises"
        THEN AnswerError("Error processing your request: ", VendorError, queryCalls)
        ELSE IF tryDirect /\ in.query = "firmware_details"
        THEN Answer("## Available Firmware Updates for " \o server_name \o "\n\n",
                    queryCalls)
        ELSE IF in.llm.raises
        THEN AnswerError("Error processing your request: ", in.llm.error,
                         queryCalls \o <<"intersight.llm">>)
        ELSE Answer(in.llm.content, queryCalls \o <<"intersight.llm">>)

\* IntersightExpert.get_response of bridgy-main: question.lower() and the
\* server name are computed once and the rest of the method works on them.
IntersightGetResponseV1(question, in) ==
    LET byName[ql \in {Lower(question)}] ==
            [server_name \in {FirmwareServerName(ql)} |->
                IntersightAnswerV1(ql, server_name, in)][FirmwareServerName(ql)]
    IN  byName[Lower(question)]

\* The api_response of IntersightExpert.get_response: "" when the direct
\* firmware call answered and api.query was not called.
IntersightApiResponse(question, initFailed, direct, vendor) ==
    LET ql == Lower(question)
        is_firmware_query == ContainsAny(ql, {"firmware", "update", "upgrade"})
        server_name == IF is_firmware_query /\ Contains(ql, "server")
                       THEN ExtractServerName(ql) ELSE ""
    IN  IF is_firmware_query /\ server_name # "" /\ ~initFailed /\ direct = "data"
        THEN ""
        ELSE IntersightAPIQuery(question, initFailed, vendor).text

\* NexusDashboardAPI.query going through with the request although the
\* initialization failed.
NexusAPIQueryRetry(question, initFailed, vendor) ==
    IF vendor = "raises"
    THEN [text |-> "Error processing query: " \o VendorError,
          calls |-> <<"nexus_dashboard.request">>]
    ELSE IF vendor = "error_value"
    THEN [text |-> "{\"fabrics\": {\"error\": \"" \o VendorError \o "\"}}",
          calls |-> <<"nexus_dashboard.request">>]
    ELSE IF vendor = "empty"
    THEN [text |-> "{}", calls |-> <<"nexus_dashboard.request">>]
    ELSE [text |-> "{\"fabrics\": {\"count\": 1}}", calls |-> <<"nexus_dashboard.request">>]

\* NexusDashboardAPI.query: [text, calls].  It returns a string on every path.
NexusAPIQuery(question, initFailed, vendor) ==
    IF initFailed
    THEN [text |-> "Error: Nexus Dashboard API initialization failed. " \o NexusInitError,
          calls |-> <<>>]
    ELSE IF vendor = "raises"
    THEN [text |-> "Error processing query: " \o VendorError,
          calls |-> <<"nexus_dashboard.request">>]
    ELSE IF vendor = "error_value"
    THEN [text |-> "{\"fabrics\": {\"error\": \"" \o VendorError \o "\"}}",
          calls |-> <<"nexus_dashboard.request">>]
    ELSE IF vendor = "empty"
    THEN [text |-> "{}", calls |-> <<"nexus_dashboard.request">>]
    ELSE [text |-> "{\"fabrics\": {\"count\": 1}}", calls |-> <<"nexus_dashboard.request">>]

\* NexusDashboardExpert._handle_api_initialization_error
HandleApiInitializationError(error_message) ==
    "I'm unable to connect to the Cisco Nexus Dashboard at this time. "
        \o "Technical details: " \o error_message

\* NexusDashboardExpert.get_response
NexusGetResponse(question, initFailed, vendor, llm) ==
    LET api == NexusAPIQuery(question, initFailed, vendor)
    IN  IF Contains(api.text, "Error:") /\ Contains(api.text, "initialization failed")
        THEN Answer(HandleApiInitializationError(api.text), api.calls)
        ELSE IF llm.raises
        THEN Raise("Nexus Dashboard Expert error: ", llm.error,
                   api.calls \o <<"nexus_dashboard.llm">>)
        ELSE Answer(llm.content, api.calls \o <<"nexus_dashboard.llm">>)

\* GeneralExpert.get_response
GeneralGetResponse(question, llm) ==
    IF llm.raises
    THEN Raise("General Expert error: ", llm.error, <<"general.llm">>)
    ELSE Answer(llm.content, <<"general.llm">>)

\* What the retrieval collaborator of the AI Pods expert may do.
RetrievalOutcomes == {"context", "no_documents", "error_text", "no_store"}

\* PDFLoader.get_relevant_context: the string it returns.
GetRelevantContext(retrieval) ==
    IF retrieval = "no_store" THEN ""
    ELSE IF retrieval = "no_documents" THEN "No relevant documentation found."
    ELSE IF retrieval = "error_text" THEN "Error retrieving information: " \o VendorError
    ELSE "--- BEGIN EXCERPT FROM AI Infrastructure Pods document (Page 3) ---\n"

\* AIPodExpert.get_response.  With no vector store the look into
\* vector_store.docstore raises before the LLM is called.
AIPodsGetResponse(question, retrieval, llm) ==
    IF retrieval = "no_store"
    THEN Raise("AI Pods Expert error: ",
               "'NoneType' object has no attribute 'docstore'", <<"ai_pods.retrieve">>)
    ELSE IF llm.raises
    THEN Raise("AI Pods Expert error: ", llm.error, <<"ai_pods.retrieve", "ai_pods.llm">>)
    ELSE Answer(llm.content, <<"ai_pods.retrieve", "ai_pods.llm">>)

\* InfrastructureAPI.__init__: the error message it records.
InfrastructureInitError(intersightFailed, nexusFailed) ==
    LET i == "Intersight API initialization failed: " \o IntersightInitError
        n == "Nexus Dashboard API initialization failed: " \o NexusInitError
    IN  IF intersightFailed /\ nexusFailed THEN i \o "; " \o n
        ELSE IF intersightFailed THEN i
        ELSE n

\* What NexusDashboardAPI.get_all_switches may hand to the Infrastructure API:
\* the outcomes of any vendor call, a response body that is not JSON (returned
\* by _make_request as a dict of content and content_type), or a JSON null.
SwitchOutcomes == VendorOutcomes \cup {"not_json", "json_null"}

\* InfrastructureAPI.get_combined_switches_info: per source, what it stored
\* under *_switches ("rows" a list of dicts, "keys" a dict kept as it came,
\* "none" an empty or absent list) and under *_error ("" for no entry).
GetCombinedSwitchesInfo(intersight, nexus) ==
    [intersight_switches |-> IF intersight = "data" THEN "rows" ELSE "none",
     intersight_error |-> IF intersight \in {"error_value", "raises"}
                          THEN VendorError ELSE "",
     nexus_dashboard_switches |-> IF nexus = "data" THEN "rows"
                                  ELSE IF nexus = "not_json" THEN "keys"
                                  ELSE "none",
     nexus_dashboard_error |-> IF nexus \in {"error_value", "raises"} THEN VendorError
                               ELSE IF nexus = "json_null"
                               THEN "argument of type 'NoneType' is not iterable"
                               ELSE ""]

\* InfrastructureAPI._format_switches_response: one section per source.
\* Iterating a dict gives its keys, and switch.get on a key raises.
FormatSwitchesResponse(info) ==
    LET head == "### Switches in Your Environment\n\n"
        first == IF info.intersight_switches = "rows"
                 THEN "## Intersight Network Elements\n\n| Device ID | Model |\n"
                 ELSE IF info.intersight_error # ""
                 THEN "## Intersight Network Elements\n\n"
                          \o "Error retrieving Intersight network elements: "
                          \o info.intersight_error \o "\n\n"
                 ELSE "## Intersight Network Elements\n\n"
                          \o "No network elements found in Intersight.\n\n"
        second == IF info.nexus_dashboard_switches = "rows"
                  THEN "\n## Nexus Dashboard Switches\n\n| Device Name | IP Address |\n"
                  ELSE IF info.nexus_dashboard_error # ""
                  THEN "\n## Nexus Dashboard Switches\n\n"
                           \o "Error retrieving Nexus Dashboard switches: "
                           \o info.nexus_dashboard_error \o "\n\n"
                  ELSE "\n## Nexus Dashboard Switches\n\n"
                           \o "No switches found in Nexus Dashboard.\n\n"
    IN  IF info.nexus_dashboard_switches = "keys"
        THEN [raised |-> TRUE, text |-> "",
              error |-> "'str' object has no attribute 'get'"]
        ELSE [raised |-> FALSE, text |-> head \o first \o second, error |-> ""]

\* InfrastructureAPI.query: [text, calls].  It returns a string on every path.
InfrastructureAPIQuery(question, intersightFailed, nexusFailed, intersight, nexus) ==
    IF intersightFailed \/ nexusFailed
    THEN [text |-> "Error: Infrastructure API initialization failed. "
                      \o InfrastructureInitError(intersightFailed, nexusFailed),
          calls |-> <<>>]
    ELSE IF ContainsAny(Lower(question),
                        {"switch", "switches", "network device", "network element"})
    THEN LET formatted == FormatSwitchesResponse(GetCombinedSwitchesInfo(intersight, nexus))
         IN  [text |-> IF formatted.raised
                       THEN "Error processing query: " \o formatted.error
                       ELSE formatted.text,
              calls |-> <<"infrastructure.intersight.get_network_elements",
                          "infrastructure.nexus_dashboard.get_all_switches">>]
    ELSE [text |-> "Please ask a question about switches or network devices "
                      \o "in your environment.",
          calls |-> <<>>]

\* InfrastructureExpert.get_response: an exception is turned into a returned text.
InfrastructureGetResponse(question, intersightFailed, nexusFailed, intersight, nexus, llm) ==
    LET api == InfrastructureAPIQuery(question, intersightFailed, nexusFailed,
                                      intersight, nexus)
        calls == api.calls \o <<"infrastructure.llm">>
    IN  IF llm.raises
        THEN AnswerError("Error processing infrastructure query: ", llm.error, calls)
        ELSE Answer(llm.content, calls)

(***************************************************************************)
(* Construction.  The environment says whether the Intersight key is set,  *)
(* whether the Nexus Dashboard credentials are set, whether the login of   *)
(* each of the two Nexus Dashboard clients is accepted, and whether the    *)
(* embeddings the PDF loader of the AI Pods expert needs can be built.     *)
(***************************************************************************)
Environments ==
    [intersightKey : BOOLEAN, nexusCredentials : BOOLEAN, login : BOOLEAN,
     infraLogin : BOOLEAN, embeddings : BOOLEAN]

Constructed == [raised |-> FALSE, error |-> ""]

ConstructionRaised(error) == [raised |-> TRUE, error |-> error]

\* IntersightClientTool.__init__: raises without the API key.
IntersightClientToolInit(e) ==
    IF e.intersightKey THEN Constructed ELSE ConstructionRaised(IntersightInitError)

\* IntersightAPI.__init__ that lets the client's exception through.
IntersightAPIInitReraise(e) ==
    LET client == IntersightClientToolInit(e)
    IN  [raised |-> client.raised, error |-> client.error,
         initialization_failed |-> client.raised]

\* IntersightAPI.__init__: records the client's failure instead of raising.
IntersightAPIInit(e) ==
    LET client == IntersightClientToolInit(e)
    IN  [raised |-> FALSE, error |-> "", initialization_failed |-> client.raised]

\* NexusDashboardAPI.__init__: missing credentials and a rejected login are
\* recorded; login itself returns False on every failure.
NexusDashboardAPIInit(e, loginAccepted) ==
    [raised |-> FALSE, error |-> "",
     initialization_failed |-> ~e.nexusCredentials \/ ~loginAccepted]

\* InfrastructureAPI.__init__: constructs a client of each kind of its own and
\* catches whatever their construction raises.
InfrastructureAPIInit(e) ==
    LET i == IntersightAPIInit(e)
        n == NexusDashboardAPIInit(e, e.infraLogin)
    IN  [raised |-> FALSE, error |-> "",
         intersight_failed |-> i.raised \/ i.initialization_failed,
         nexus_failed |-> n.raised \/ n.initialization_failed]

\* PDFLoader.__init__: when the vector store cannot be built it builds a mock
\* one in the except clause, and that raises if the embeddings are unavailable.
PDFLoaderInit(e) ==
    IF e.embeddings THEN Constructed
    ELSE ConstructionRaised("Could not load the embeddings model")

\* ExpertRouter.__init__: constructs the five experts, each with its clients;
\* IntersightExpert, NexusDashboardExpert and AIPodExpert catch nothing.
ExpertRouterInit(e) ==
    LET intersight == IntersightAPIInit(e)
        pdf == PDFLoaderInit(e)
        nexus == NexusDashboardAPIInit(e, e.login)
        infra == InfrastructureAPIInit(e)
    IN  [raised |-> intersight.raised \/ pdf.raised \/ nexus.raised,
         error |-> IF intersight.raised THEN intersight.error
                   ELSE IF pdf.raised THEN pdf.error ELSE nexus.error,
         intersightInitFailed |-> intersight.initialization_failed,
         nexusInitFailed |-> nexus.initialization_failed,
         infraIntersightInitFailed |-> infra.intersight_failed,
         infraNexusInitFailed |-> infra.nexus_failed]

\* _expert_router = ExpertRouter(): the construction branch of
\* get_expert_router, with count instances built before; an instance that
\* was constructed is cached and returned, an exception leaves the cache.
ConstructAndCache(cached, count, e) ==
    LET made == ExpertRouterInit(e)
    IN  IF made.raised
        THEN [raised |-> TRUE, error |-> made.error, cache |-> cached,
              count |-> count, returned |-> 0, made |-> made, constructs |-> TRUE]
        ELSE [raised |-> FALSE, error |-> "", cache |-> count + 1,
              count |-> count + 1, returned |-> count + 1, made |-> made,
              constructs |-> TRUE]

\* get_expert_router constructing a router on every call.
GetExpertRouterUncached(cached, count, e) == ConstructAndCache(cached, count, e)

\* get_expert_router / get_router, the cache holding cached (0 for None): it
\* constructs only when nothing is cached.
GetExpertRouter(cached, count, e) ==
    IF cached # 0
    THEN [raised |-> FALSE, error |-> "", cache |-> cached, count |-> count,
          returned |-> cached, made |-> ExpertRouterInit(e), constructs |-> FALSE]
    ELSE ConstructAndCache(cached, count, e)

(***************************************************************************)
(* ExpertRouter.route_and_respond, in the steps between its calls.         *)
(***************************************************************************)
\* Labels built from the identifiers, as ExpertRouter.get_response builds the
\* names it logs: expert_name.replace('_', ' ').title() + " Expert".
LabelsTitled ==
    [intersight |-> "Intersight Expert",
     ai_pods |-> "Ai Pods Expert",
     nexus_dashboard |-> "Nexus Dashboard Expert",
     infrastructure |-> "Infrastructure Expert",
     general |-> "General Expert"]

Labels ==
    [intersight |-> "Intersight Expert",
     ai_pods |-> "AI Pods Expert",
     nexus_dashboard |-> "Nexus Dashboard Expert",
     infrastructure |-> "Infrastructure Expert",
     general |-> "General Expert"]

\* The expert _basic_routing_fallback picks for a question.
BasicRoutingKind(query) ==
    IF IsIntersightQuery(query) THEN "intersight"
    ELSE IF IsAIPodsQuery(query) THEN "ai_pods"
    ELSE IF IsNexusDashboardQuery(query) THEN "nexus_dashboard"
    ELSE IF IsInfrastructureQuery(query) THEN "infrastructure"
    ELSE "general"

\* The expert a request is dispatched to: the classifier's choice, or, when the
\* classifier raised, the choice of _basic_routing_fallback.  Any choice that is
\* not one of the four named experts goes to the final else branch.
DispatchKind(query, choice) ==
    IF choice.raised THEN BasicRoutingKind(query)
    ELSE IF choice.kind \in {"intersight", "ai_pods", "nexus_dashboard", "infrastructure"}
    THEN choice.kind
    ELSE "general"

Done(text, label) == [next |-> "done", text |-> text, label |-> label, error |-> ""]

\* The except clause of the branch of route_and_respond (basic = FALSE) or of
\* _basic_routing_fallback (basic = TRUE) for the expert of the given kind,
\* whose get_response raised r.error.
ExceptBranch(kind, basic, r) ==
    IF kind \in {"intersight", "nexus_dashboard"}
    THEN [next |-> "fallback", text |-> "", label |-> "", error |-> r.error]
    ELSE IF kind = "ai_pods"
    THEN IF basic
         THEN Done("I'm sorry, I encountered an error with the AI Pods expert.", "System")
         ELSE Done("AI Pods Expert Error: " \o r.error, "System")
    ELSE IF kind = "infrastructure"
    THEN Done("Infrastructure Expert Error: " \o r.error, "System")
    ELSE IF basic
    THEN Done("I'm sorry, I encountered an error processing your request.", "System")
    ELSE Done("General Expert Error: " \o r.error, "System")

\* An exception that no except clause catches leaves route_and_respond.
Escapes(error) == [next |-> "raised", text |-> "", label |-> "", error |-> error]

\* DispatchOutcome with the AI Pods call outside any try block.
DispatchOutcomeUncaught(kind, basic, r) ==
    IF ~r.raised THEN Done(r.text, Labels[kind])
    ELSE IF kind = "ai_pods" THEN Escapes(r.error)
    ELSE ExceptBranch(kind, basic, r)

\* DispatchOutcome with the messages of _basic_routing_fallback, which drop
\* the exception's text.
DispatchOutcomeCanned(kind, basic, r) ==
    IF ~r.raised THEN Done(r.text, Labels[kind]) ELSE ExceptBranch(kind, TRUE, r)

\* DispatchOutcome calling the expert again when it raised.
DispatchOutcomeRetry(kind, basic, r) ==
    IF ~r.raised THEN Done(r.text, Labels[kind])
    ELSE [next |-> "dispatch", text |-> "", label |-> "", error |-> r.error]

\* What route_and_respond (basic = FALSE) or _basic_routing_fallback
\* (basic = TRUE) does with the outcome r of the selected expert.
DispatchOutcome(kind, basic, r) ==
    IF ~r.raised THEN Done(r.text, Labels[kind]) ELSE ExceptBranch(kind, basic, r)

\* The question handed to the General Expert when it stands in for a failed expert.
FallbackPrompt(kind, query) ==
    IF kind = "intersight"
    THEN "The user asked '" \o query \o "' about Intersight, but I couldn't access "
             \o "the Intersight API. Please provide a general answer."
    ELSE "The user asked '" \o query \o "' about Nexus Dashboard, but I couldn't "
             \o "access the Nexus Dashboard API. Please provide a general answer."

\* The text returned when the General Expert answered for a failed expert.
FallbackNote(kind, g) ==
    IF kind = "intersight"
    THEN "Note: Could not connect to Intersight API. "
             \o "Using general knowledge instead.\n\n" \o g.text
    ELSE "Note: Could not connect to Nexus Dashboard API. "
             \o "Using general knowledge instead.\n\n" \o g.text

\* The pair returned when the General Expert failed too.
FallbackApology(kind, basic, error) ==
    IF kind = "intersight" /\ ~basic
    THEN Done("I'm sorry, I encountered an error: " \o error, "System")
    ELSE Done("I'm sorry, I encountered multiple errors trying to process your request.",
              "System")

\* FallbackOutcome with the General Expert's own label on the stand-in answer.
FallbackOutcomeUnmarked(kind, basic, error, g) ==
    IF ~g.raised THEN Done(FallbackNote(kind, g), "General Expert")
    ELSE FallbackApology(kind, basic, error)

\* FallbackOutcome with the stand-in call of the Nexus Dashboard branch outside
\* any try block.
FallbackOutcomeUncaught(kind, basic, error, g) ==
    IF ~g.raised THEN Done(FallbackNote(kind, g), "General Expert (Fallback)")
    ELSE IF kind = "nexus_dashboard" THEN Escapes(g.error)
    ELSE FallbackApology(kind, basic, error)

\* What the except branch of the Intersight and Nexus Dashboard routes does with
\* the outcome g of the General Expert; error is the failed expert's message.
FallbackOutcome(kind, basic, error, g) ==
    IF ~g.raised THEN Done(FallbackNote(kind, g), "General Expert (Fallback)")
    ELSE FallbackApology(kind, basic, error)

(***************************************************************************)
(* Inputs: questions and replies of the routing LLM.                       *)
(***************************************************************************)
\* Words and short phrases that questions are built from.
Words ==
    {"switches", "environment", "server", "Intersight", "nexus",
     "what is", "VLAN", "hardware", "running", "70b"}

\* Whole questions, among them the scenarios of the specification.
ExampleQuestions ==
    {"",
     "What is a VLAN?",
     "What servers do I have in my environment?",
     "Compare Intersight and Nexus Dashboard switches in my environment",
     "Recommend hardware for a 70B parameter model",
     "what firmware is available for server web-01",
     "What switches are running in my environment?",
     "Explain how a GPU works",
     "Show the fabrics in my environment",
     "Tell me a joke"}

WordLists == UNION {[1..n -> Words] : n \in 1..MaxWords}

Questions == ExampleQuestions \cup {Join(ws) : ws \in WordLists}

LLMError == "Connection error."

LLMRaises == [raises |-> TRUE, content |-> "", error |-> LLMError]

LLMSays(content) == [raises |-> FALSE, content |-> content, error |-> ""]

\* What the routing LLM call may do: raise, or reply with some text.
RoutingReplies ==
    {LLMRaises,
     LLMSays("intersight"),
     LLMSays("  Nexus_Dashboard\n"),
     LLMSays("general"),
     LLMSays("I think the right expert for this one is AI Pods"),
     LLMSays("infrastructure"),
     LLMSays("intersight could be right but honestly i can not tell"),
     LLMSays("I am not sure."),
     LLMSays("")}

\* What the LLM call of an expert may do.
ExpertLLMOutcomes == {LLMRaises, LLMSays("Here is what I found."), LLMSays("")}

\* The questions put to the router.
RouterQuestions == ExampleQuestions \cup Words

NoResult == [raised |-> FALSE, kind |-> "unset", via |-> "unset"]

NoAnswer == [raised |-> FALSE, text |-> "", error |-> "", cause |-> "", calls |-> <<>>]

NoPair == [text |-> "", label |-> ""]

RouterIdle ==
    /\ rpc = "idle"
    /\ reqQuestion = ""
    /\ expertChoice = NoResult
    /\ expertRes = NoAnswer
    /\ generalRes = NoAnswer
    /\ result = NoPair
    /\ callLog = <<>>
    /\ apiResponse = ""
    /\ steps = <<>>

ClassifierOff ==
    /\ cq = ""
    /\ creply = LLMRaises
    /\ cres = NoResult
    /\ cpc = "off"

\* The questions put to the bridgy-main Intersight expert.
IntersightQuestions ==
    ExampleQuestions \cup {"Which servers have NVIDIA GPUs?",
                           "upgrade firmware on server web-01",
                           "upgrade firmware to 4.2 for server web-01",
                           "Firmware for server  DB_2?",
                           "update firmware on server a1 then for server b2",
                           "firmware for server"}

\* Every behaviour of the collaborators of the bridgy-main Intersight expert.
IntersightInputs ==
    [gpu : VendorOutcomes, gpuFormatter : BOOLEAN, direct : VendorOutcomes,
     inventory : VendorOutcomes, query : QueryOutcomes, llm : ExpertLLMOutcomes]

NoInputs ==
    [gpu |-> "data", gpuFormatter |-> TRUE, direct |-> "data", inventory |-> "data",
     query |-> "text", llm |-> LLMRaises]

ExpertOff ==
    /\ eq = ""
    /\ ein = NoInputs
    /\ eres = NoAnswer
    /\ epc = "off"

\* The requests that may be in flight at once.
Requests == {1, 2}

\* What the Nexus Dashboard answers to a request's calls: the status of its
\* first data call, the outcome of its logins, the status of its retried call.
Statuses == {200, 401}

LoginOutcomes == {"token", "no_token", "status", "connection"}

Scripts == [send : Statuses, login : LoginOutcomes, resend : Statuses]

NoScript == [send |-> 200, login |-> "token", resend |-> 200]

\* A request that has not started.
IdleTask ==
    [pc |-> "idle", script |-> NoScript, got |-> 0, start |-> "", ok |-> FALSE,
     res |-> ""]

\* No request is in flight and no Nexus Dashboard client exists.
TasksOff ==
    /\ jwt_token = ""
    /\ last_error = ""
    /\ task = [p \in Requests |-> IdleTask]

(***************************************************************************)
(* The router: construction, then requests one after the other.            *)
(***************************************************************************)
\* No call of ExpertRouter.get_response is modelled.
NoReply == [raised |-> FALSE, text |-> "unset", error |-> ""]

GetResponseOff ==
    /\ gq = ""
    /\ gin = [expert |-> "answers", general |-> "answers"]
    /\ gres = NoReply
    /\ gpc = "off"

\* The thread API of bridgy-main/main.py: clients, identifiers and requests.
Clients == {1, 2}

MaxThreads == 1

MaxSends == 2

MaxTime == 1

\* generate_id(): a fresh uuid for each thread.
ThreadNames == <<"t1", "t2", "t3", "t4">>

ThreadIds == {ThreadNames[n] : n \in 1..MaxThreads}

\* A client that has no request in flight and has made none.
IdleRequest ==
    [op |-> "none", pc |-> "idle", tid |-> "", match |-> TRUE, mid |-> 0, status |-> 0,
     found |-> FALSE, deleted |-> FALSE, doc |-> <<>>, stored |-> 0,
     items |-> <<>>]

\* A request that has just entered its handler.
Request(op, tid, match) ==
    [IdleRequest EXCEPT !.op = op, !.tid = tid, !.match = match]

\* The handler returns (status 200) or raises HTTPException(status).
Ended(r, status) == [r EXCEPT !.pc = "done", !.status = status]

\* The handler is suspended in "await db[...].<operation>(...)".
Await(r, operation) == [r EXCEPT !.pc = operation]

ThreadsOff ==
    /\ MONGO_ENABLED = FALSE
    /\ memory_threads = {}
    /\ memory_messages = <<>>
    /\ db_threads = {}
    /\ db_messages = {}
    /\ clock = 0
    /\ threadsMade = 0
    /\ sendsMade = 0
    /\ req = [c \in Clients |-> IdleRequest]

\* No call of generate_follow_ups is modelled.
NoFollowUps == [returned |-> FALSE, raised |-> FALSE, list |-> <<>>]

FollowUpsOff ==
    /\ fin = [raises |-> FALSE, response |-> ""]
    /\ fres = NoFollowUps
    /\ fpc = "off"

\* No WebSocket connection is modelled.
NoChatMessage == [kind |-> "none", ollama |-> "none"]

ChatOff ==
    /\ wpc = "off"
    /\ connected = FALSE
    /\ wmsg = NoChatMessage
    /\ wsent = <<>>
    /\ wlate = 0
    /\ handled = 0

\* The service layer around the router is not modelled.
ServiceOff == GetResponseOff /\ ThreadsOff /\ FollowUpsOff /\ ChatOff

\* No router has been constructed and no caller holds one.
NoRouter ==
    /\ startEnv = env
    /\ router = 0
    /\ built = 0
    /\ held = 0
    /\ constructError = ""
    /\ intersightInitFailed = FALSE
    /\ nexusInitFailed = FALSE
    /\ infraIntersightInitFailed = FALSE
    /\ infraNexusInitFailed = FALSE

\* The process has started: _expert_router is None.
Init ==
    /\ env \in Environments
    /\ NoRouter
    /\ RouterIdle
    /\ ClassifierOff
    /\ ExpertOff
    /\ TasksOff
    /\ ServiceOff

\* A caller asks for the router (get_expert_router in bridgy-main, the cached
\* get_router in bridgyv2-main) before it routes a request.
GetRouter ==
    /\ rpc = "idle"
    /\ held = 0
    /\ LET got == GetExpertRouter(router, built, env)
       IN  /\ router' = got.cache
           /\ built' = got.count
           /\ held' = got.returned
           /\ constructError' = got.error
           /\ IF got.constructs /\ ~got.raised
              THEN /\ intersightInitFailed' = got.made.intersightInitFailed
                   /\ nexusInitFailed' = got.made.nexusInitFailed
                   /\ infraIntersightInitFailed' = got.made.infraIntersightInitFailed
                   /\ infraNexusInitFailed' = got.made.infraNexusInitFailed
              ELSE UNCHANGED initvars
    /\ UNCHANGED <<xvars, env, startEnv, rvars, cvars, evars, tvars>>

\* One step of a request: the classification, the call of the selected
\* expert, the call of the General Expert in an except clause, the return.
Step(op, raised) == [op |-> op, raised |-> raised]

\* Everything the vendor clients need is in place.
FullEnvironment ==
    [intersightKey |-> TRUE, nexusCredentials |-> TRUE, login |-> TRUE,
     infraLogin |-> TRUE, embeddings |-> TRUE]

\* After the router was constructed the missing credentials are supplied and
\* the Nexus Dashboard accepts logins: nothing in the process reads them again.
EnvironmentRecovers ==
    /\ router # 0
    /\ env # FullEnvironment
    /\ env' = FullEnvironment
    /\ UNCHANGED <<xvars, startEnv, router, built, held, constructError, initvars, rvars,
                   cvars, evars, tvars>>

\* route_and_respond up to the choice of the expert.
RouteClassify(q, llm) ==
    /\ rpc = "idle"
    /\ held # 0
    /\ rpc' = "dispatch"
    /\ reqQuestion' = q
    /\ expertChoice' = DetermineExpertWithCot(q, llm)
    /\ callLog' = <<"router.llm">>
    /\ steps' = <<Step("classify", FALSE)>>
    /\ UNCHANGED <<xvars, expertRes, generalRes, result, apiResponse, initvars, cvars, evars, lvars, tvars>>

\* What every branch of route_and_respond (or of _basic_routing_fallback) does
\* with the outcome r of the get_response of its expert; api is what the
\* expert's api.query returned to it.
HandleExpert(kind, r, api) ==
    LET out == DispatchOutcome(kind, expertChoice.raised, r)
    IN  /\ expertRes' = r
        /\ apiResponse' = api
        /\ callLog' = callLog \o r.calls
        /\ steps' = Append(steps, Step("expert", r.raised))
        /\ rpc' = out.next
        /\ result' = IF out.next = "done"
                     THEN [text |-> out.text, label |-> out.label]
                     ELSE result
        /\ UNCHANGED <<xvars, reqQuestion, expertChoice, generalRes, initvars, cvars, evars, lvars, tvars>>

RouteIntersight(direct, vendor, llm) ==
    /\ rpc = "dispatch"
    /\ DispatchKind(reqQuestion, expertChoice) = "intersight"
    /\ HandleExpert("intersight",
                    IntersightGetResponse(reqQuestion, intersightInitFailed,
                                          direct, vendor, llm),
                    IntersightApiResponse(reqQuestion, intersightInitFailed,
                                          direct, vendor))

RouteAIPods(retrieval, llm) ==
    /\ rpc = "dispatch"
    /\ DispatchKind(reqQuestion, expertChoice) = "ai_pods"
    /\ HandleExpert("ai_pods", AIPodsGetResponse(reqQuestion, retrieval, llm), "")

RouteNexusDashboard(vendor, llm) ==
    /\ rpc = "dispatch"
    /\ DispatchKind(reqQuestion, expertChoice) = "nexus_dashboard"
    /\ HandleExpert("nexus_dashboard",
                    NexusGetResponse(reqQuestion, nexusInitFailed, vendor, llm),
                    NexusAPIQuery(reqQuestion, nexusInitFailed, vendor).text)

RouteInfrastructure(intersight, nexus, llm) ==
    /\ rpc = "dispatch"
    /\ DispatchKind(reqQuestion, expertChoice) = "infrastructure"
    /\ HandleExpert("infrastructure",
                    InfrastructureGetResponse(reqQuestion, infraIntersightInitFailed,
                                              infraNexusInitFailed, intersight, nexus,
                                              llm),
                    InfrastructureAPIQuery(reqQuestion, infraIntersightInitFailed,
                                           infraNexusInitFailed, intersight,
                                           nexus).text)

RouteGeneral(llm) ==
    /\ rpc = "dispatch"
    /\ DispatchKind(reqQuestion, expertChoice) = "general"
    /\ HandleExpert("general", GeneralGetResponse(reqQuestion, llm), "")

\* The General Expert standing in for a failed Intersight or Nexus Dashboard expert.
RouteFallback(llm) ==
    /\ rpc = "fallback"
    /\ LET kind == DispatchKind(reqQuestion, expertChoice)
           g == GeneralGetResponse(FallbackPrompt(kind, reqQuestion), llm)
           out == FallbackOutcome(kind, expertChoice.raised, expertRes.error, g)
       IN  /\ generalRes' = g
           /\ callLog' = callLog \o g.calls
           /\ steps' = Append(steps, Step("fallback", g.raised))
           /\ rpc' = out.next
           /\ result' = IF out.next = "done"
                        THEN [text |-> out.text, label |-> out.label]
                        ELSE result
    /\ UNCHANGED <<xvars, reqQuestion, expertChoice, expertRes, apiResponse, initvars, cvars, evars, lvars, tvars>>

\* The caller has the pair; the router is ready for the next request.
RouteReturn ==
    /\ rpc = "done"
    /\ rpc' = "idle"
    /\ reqQuestion' = ""
    /\ expertChoice' = NoResult
    /\ expertRes' = NoAnswer
    /\ generalRes' = NoAnswer
    /\ result' = NoPair
    /\ callLog' = <<>>
    /\ steps' = Append(steps, Step("return", FALSE))
    /\ apiResponse' = ""
    /\ held' = 0
    /\ UNCHANGED <<xvars, env, startEnv, router, built, constructError, initvars, cvars, evars, tvars>>

Next ==
    \/ GetRouter
    \/ EnvironmentRecovers
    \/ \E q \in RouterQuestions, llm \in RoutingReplies : RouteClassify(q, llm)
    \/ \E direct \in VendorOutcomes, vendor \in VendorOutcomes, llm \in ExpertLLMOutcomes :
            RouteIntersight(direct, vendor, llm)
    \/ \E retrieval \in RetrievalOutcomes, llm \in ExpertLLMOutcomes :
            RouteAIPods(retrieval, llm)
    \/ \E vendor \in VendorOutcomes, llm \in ExpertLLMOutcomes :
            RouteNexusDashboard(vendor, llm)
    \/ \E intersight \in VendorOutcomes, nexus \in SwitchOutcomes,
          llm \in ExpertLLMOutcomes :
            RouteInfrastructure(intersight, nexus, llm)
    \/ \E llm \in ExpertLLMOutcomes : RouteGeneral(llm)
    \/ \E llm \in ExpertLLMOutcomes : RouteFallback(llm)
    \/ RouteReturn

Spec == Init /\ [][Next]_vars

(***************************************************************************)
(* The classifier on its own: one call of _determine_expert_with_cot on    *)
(* any question, with any behaviour of the routing LLM.                    *)
(***************************************************************************)
ClassifyInit ==
    /\ env = [intersightKey |-> TRUE, nexusCredentials |-> TRUE, login |-> TRUE,
              infraLogin |-> TRUE, embeddings |-> TRUE]
    /\ NoRouter
    /\ RouterIdle
    /\ cq \in Questions
    /\ creply \in RoutingReplies
    /\ cres = NoResult
    /\ cpc = "new"
    /\ ExpertOff
    /\ TasksOff
    /\ ServiceOff

Classify ==
    /\ cpc = "new"
    /\ cres' = DetermineExpertWithCot(cq, creply)
    /\ cpc' = "classified"
    /\ UNCHANGED <<xvars, cq, creply, initvars, rvars, evars, lvars, tvars>>

ClassifyNext == Classify

SpecClassify == ClassifyInit /\ [][ClassifyNext]_vars

(***************************************************************************)
(* The Intersight expert of bridgy-main on its own: one call of            *)
(* get_response on any question, with any behaviour of its collaborators.  *)
(***************************************************************************)
AskInit ==
    /\ env = [intersightKey |-> TRUE, nexusCredentials |-> TRUE, login |-> TRUE,
              infraLogin |-> TRUE, embeddings |-> TRUE]
    /\ NoRouter
    /\ RouterIdle
    /\ ClassifierOff
    /\ TasksOff
    /\ ServiceOff
    /\ eq \in IntersightQuestions
    /\ ein \in IntersightInputs
    /\ eres = NoAnswer
    /\ epc = "new"

AskIntersight ==
    /\ epc = "new"
    /\ eres' = IntersightGetResponseV1(eq, ein)
    /\ epc' = "answered"
    /\ UNCHANGED <<xvars, eq, ein, initvars, rvars, cvars, lvars, tvars>>

AskNext == AskIntersight

SpecAsk == AskInit /\ [][AskNext]_vars

(***************************************************************************)
(* Concurrent requests on one router.  Each request gets the router, then  *)
(* goes through NexusDashboardAPI._make_request on the client its expert   *)
(* owns, one step per statement that reads or writes the client's fields   *)
(* or calls the server.                                                    *)
(***************************************************************************)
Token == "jwt"

\* NexusDashboardAPI.login on a client whose token is token: the return
\* value and the fields as it leaves them.  Only a response without a token
\* overwrites jwt_token (with None); every failure writes error_message.
\* keep is the error_message a successful login leaves untouched.
Login(token, keep, outcome) ==
    IF outcome = "token"
    THEN [ok |-> TRUE, jwt_token |-> Token, error_message |-> keep]
    ELSE IF outcome = "no_token"
    THEN [ok |-> FALSE, jwt_token |-> "",
          error_message |-> "JWT token not found in login response"]
    ELSE IF outcome = "status"
    THEN [ok |-> FALSE, jwt_token |-> token,
          error_message |-> "Authentication failed with status code: 403"]
    ELSE [ok |-> FALSE, jwt_token |-> token,
          error_message |-> "Connection error: Could not connect"]

\* What _make_request returns for a response of this status.
Response(status) ==
    IF status >= 400 THEN "HTTP error " \o ToString(status) ELSE "switches"

AuthenticationFailed(message) ==
    "Failed to authenticate with Nexus Dashboard: " \o message

\* _make_request run from start to end with no other request in between, on
\* a client whose token is token, the server answering by the script sc.
MakeRequest(token, sc) ==
    LET first == Login(token, "", sc.login)
    IN  IF token = "" /\ ~first.ok
        THEN AuthenticationFailed(first.error_message)
        ELSE IF sc.send = 401
        THEN IF first.ok THEN Response(sc.resend) ELSE Response(401)
        ELSE Response(sc.send)

ConcurrentEnvironments ==
    {e \in Environments :
        e.intersightKey /\ e.nexusCredentials /\ e.login /\ e.infraLogin}

ConcurrentInit ==
    /\ env \in ConcurrentEnvironments
    /\ NoRouter
    /\ RouterIdle
    /\ ClassifierOff
    /\ ExpertOff
    /\ TasksOff
    /\ ServiceOff

\* The request gets the router (constructing it, and with it the client and
\* its first login, if no router is cached) and is handed to an expert.
Begin(p, sc) ==
    /\ task[p].pc = "idle"
    /\ LET call == GetExpertRouter(router, built, env)
           token == IF call.constructs /\ ~call.raised THEN Token ELSE jwt_token
       IN  /\ router' = call.cache
           /\ built' = call.count
           /\ constructError' = call.error
           /\ jwt_token' = token
           /\ task' = [task EXCEPT ![p] =
                  [pc |-> IF call.raised THEN "done" ELSE "check", script |-> sc,
                   got |-> call.returned, start |-> token, ok |-> FALSE,
                   res |-> call.error]]
    /\ UNCHANGED <<xvars, env, startEnv, held, last_error, initvars, rvars, cvars, evars>>

\* if not self.jwt_token
CheckToken(p) ==
    /\ task[p].pc = "check"
    /\ task' = [task EXCEPT ![p].pc = IF jwt_token = "" THEN "login" ELSE "send"]
    /\ UNCHANGED <<xvars, jwt_token, last_error, lvars, initvars, rvars, cvars, evars>>

\* self.login() of a client without a token
FirstLogin(p) ==
    /\ task[p].pc = "login"
    /\ LET l == Login(jwt_token, last_error, task[p].script.login)
       IN  /\ jwt_token' = l.jwt_token
           /\ last_error' = l.error_message
           /\ task' = [task EXCEPT ![p].pc = "logged", ![p].ok = l.ok]
    /\ UNCHANGED <<xvars, lvars, initvars, rvars, cvars, evars>>

\* the return that reads self.error_message when the login failed
AfterLogin(p) ==
    /\ task[p].pc = "logged"
    /\ task' = [task EXCEPT
                  ![p].pc = IF task[p].ok THEN "send" ELSE "done",
                  ![p].res = IF task[p].ok THEN ""
                             ELSE AuthenticationFailed(last_error)]
    /\ UNCHANGED <<xvars, jwt_token, last_error, lvars, initvars, rvars, cvars, evars>>

\* self.session.request(...)
Send(p) ==
    /\ task[p].pc = "send"
    /\ task' = [task EXCEPT
                  ![p].pc = IF task[p].script.send = 401 THEN "relogin" ELSE "done",
                  ![p].res = IF task[p].script.send = 401 THEN ""
                             ELSE Response(task[p].script.send)]
    /\ UNCHANGED <<xvars, jwt_token, last_error, lvars, initvars, rvars, cvars, evars>>

\* on a 401: self.login() again, and the 401 is returned if that fails
Relogin(p) ==
    /\ task[p].pc = "relogin"
    /\ LET l == Login(jwt_token, last_error, task[p].script.login)
       IN  /\ jwt_token' = l.jwt_token
           /\ last_error' = l.error_message
           /\ task' = [task EXCEPT
                         ![p].pc = IF l.ok THEN "resend" ELSE "done",
                         ![p].ok = l.ok,
                         ![p].res = IF l.ok THEN "" ELSE Response(401)]
    /\ UNCHANGED <<xvars, lvars, initvars, rvars, cvars, evars>>

\* the retried self.session.request(...)
Resend(p) ==
    /\ task[p].pc = "resend"
    /\ task' = [task EXCEPT ![p].pc = "done",
                             ![p].res = Response(task[p].script.resend)]
    /\ UNCHANGED <<xvars, jwt_token, last_error, lvars, initvars, rvars, cvars, evars>>

\* The request has been answered; its caller may send another.
Finish(p) ==
    /\ task[p].pc = "done"
    /\ task' = [task EXCEPT ![p] = IdleTask]
    /\ UNCHANGED <<xvars, jwt_token, last_error, lvars, initvars, rvars, cvars, evars>>

ConcurrentNext ==
    \/ \E p \in Requests, sc \in Scripts : Begin(p, sc)
    \/ \E p \in Requests : CheckToken(p)
    \/ \E p \in Requests : FirstLogin(p)
    \/ \E p \in Requests : AfterLogin(p)
    \/ \E p \in Requests : Send(p)
    \/ \E p \in Requests : Relogin(p)
    \/ \E p \in Requests : Resend(p)
    \/ \E p \in Requests : Finish(p)

SpecConcurrent == ConcurrentInit /\ [][ConcurrentNext]_vars

(***************************************************************************)
(* Properties of route_and_respond and of the classifier.                  *)
(***************************************************************************)

\* The expert whose branch serves the request in progress.
ReqKind == DispatchKind(reqQuestion, expertChoice)

\* The classifier chose by keyword tests on the question, not by the reply.
ByKeywords == cpc = "classified" /\ cres.via \in {"heuristic", "except"}

EndsWith(s, suffix) ==
    /\ Len(suffix) <= Len(s)
    /\ SubSeq(s, Len(s) - Len(suffix) + 1, Len(s)) = suffix

\* C1: route_and_respond never raises to its caller, whatever the question, the
\* routing reply and the outcome of every expert, and with either vendor API
\* unavailable: no exception escapes the classifier or a branch, every request
\* in progress is in a branch that handles it, and a finished request holds a
\* pair of an answer text and a non-empty label.
C1_RouteNeverRaises ==
    /\ rpc \in {"idle", "dispatch", "fallback", "done"}
    /\ ~expertChoice.raised
    /\ rpc = "dispatch" => ReqKind \in ExpertKinds
    /\ rpc = "fallback" => ReqKind \in {"intersight", "nexus_dashboard"}
    /\ rpc = "done" => DOMAIN result = {"text", "label"} /\ result.label # ""

\* C1 case: the routing LLM raised, the Intersight API never initialised, the
\* Intersight expert raised and so did the General Expert standing in for it;
\* the request still finished.
C1_Witness ==
    /\ rpc = "done"
    /\ expertChoice.via = "except"
    /\ intersightInitFailed
    /\ ReqKind = "intersight"
    /\ expertRes.raised
    /\ generalRes.raised

\* C2: when the Intersight or Nexus Dashboard expert raised and the General
\* Expert then answered, the pair carries the label "General Expert (Fallback)"
\* and its text is the connection note followed by the General Expert's answer.
C2_FallbackLabel ==
    (/\ rpc = "done"
     /\ ReqKind \in {"intersight", "nexus_dashboard"}
     /\ expertRes.raised
     /\ generalRes # NoAnswer
     /\ ~generalRes.raised)
    => /\ result.label = "General Expert (Fallback)"
       /\ StartsWith(result.text, "Note: Could not connect to ")
       /\ EndsWith(result.text, generalRes.text)

\* C2 case: the Nexus Dashboard expert raised and the General Expert answered.
C2_Witness ==
    /\ rpc = "done"
    /\ ReqKind = "nexus_dashboard"
    /\ expertRes.raised
    /\ ~generalRes.raised
    /\ generalRes.text = "Here is what I found."
    /\ result.label = "General Expert (Fallback)"

\* C3: a failure of the Infrastructure, AI Pods or General expert is not
\* covered by a stand-in answer: the General Expert is not called in its place
\* and the returned text contains the original error text verbatim.
C3_ErrorNotMasked ==
    (/\ rpc = "done"
     /\ ReqKind \in {"infrastructure", "ai_pods", "general"}
     /\ expertRes.cause # "")
    => /\ generalRes = NoAnswer
       /\ result.label # "General Expert (Fallback)"
       /\ ReqKind # "general" => ~InList("general.llm", callLog)
       /\ Contains(result.text, expertRes.cause)

\* C3 case: the AI Pods expert raised because its LLM call failed.
C3_Witness ==
    /\ rpc = "done"
    /\ ReqKind = "ai_pods"
    /\ expertRes.raised
    /\ expertRes.cause = LLMError
    /\ result.label = "System"

\* C4: when the General Expert called as a stand-in raises too, the request
\* finishes with an apology under the label "System" instead of raising.
C4_DoubleFailureApology ==
    (/\ ReqKind \in {"intersight", "nexus_dashboard"}
     /\ expertRes.raised
     /\ generalRes.raised)
    => /\ rpc = "done"
       /\ result.label = "System"
       /\ StartsWith(result.text, "I'm sorry, I encountered ")

\* C4 case: the Nexus Dashboard expert and the stand-in General Expert both raised.
C4_Witness ==
    /\ rpc = "done"
    /\ ReqKind = "nexus_dashboard"
    /\ expertRes.raised
    /\ generalRes.raised
    /\ result.label = "System"

SevenLabels ==
    {"Intersight Expert", "AI Pods Expert", "Nexus Dashboard Expert",
     "Infrastructure Expert", "General Expert", "General Expert (Fallback)", "System"}

\* C5: the label of every returned pair is one of the seven strings
\* "Intersight Expert", "AI Pods Expert", "Nexus Dashboard Expert",
\* "Infrastructure Expert", "General Expert", "General Expert (Fallback)", "System".
C5_LabelIsOneOfSeven == rpc = "done" => result.label \in SevenLabels

\* C5 case: the AI Pods expert answered.
C5_Witness ==
    /\ rpc = "done"
    /\ ReqKind = "ai_pods"
    /\ ~expertRes.raised
    /\ result.label = "AI Pods Expert"

\* C6: the classifier is total: for every question and every behaviour of the
\* routing LLM it returns one of the five kinds and never raises; when the LLM
\* call raises, the kind is the one the except branch's keyword tests give for
\* the question.
C6_ClassifierTotal ==
    cpc = "classified"
    => /\ ~cres.raised
       /\ cres.kind \in ExpertKinds
       /\ creply.raises => cres.via = "except" /\ cres.kind = ExceptHeuristic(cq)

\* C6 case: the routing LLM raised on a question containing no keyword at all.
C6_Witness ==
    /\ cpc = "classified"
    /\ creply.raises
    /\ cq = "Tell me a joke"
    /\ cres.kind = "general"

\* C7 as stated: when the Intersight or Nexus Dashboard API failed to
\* initialise, a request routed to that expert is answered by the General
\* Expert under the label "General Expert (Fallback)", and neither a vendor
\* call nor an LLM call of the expert is made.
C7_InitFailureFallsBack ==
    (/\ rpc = "done"
     /\ \/ ReqKind = "intersight" /\ intersightInitFailed
        \/ ReqKind = "nexus_dashboard" /\ nexusInitFailed)
    => /\ result.label = "General Expert (Fallback)"
       /\ \A i \in 1..Len(callLog) : callLog[i] \in {"router.llm", "general.llm"}

\* The data-centre terms whose presence keeps a question away from the
\* Infrastructure expert.
HasVetoTerm(query) ==
    ContainsAny(Lower(query), {"server", "firmware", "gpu", "fabric", "vlan"})

SwitchesInEnvironment(query) ==
    Contains(Lower(query), "switches") /\ Contains(Lower(query), "environment")

\* C8: on the keyword paths, a question that mentions switches and environment
\* and none of server, firmware, gpu, fabric, vlan goes to the Infrastructure
\* expert.
C8_SwitchesEnvironmentInfrastructure ==
    (ByKeywords /\ SwitchesInEnvironment(cq) /\ ~HasVetoTerm(cq))
    => cres.kind = "infrastructure"

\* C8 case: such a question, classified by keywords after an unusable reply.
C8_Witness ==
    /\ ByKeywords
    /\ cres.via = "heuristic"
    /\ cq = "What switches are running in my environment?"
    /\ cres.kind = "infrastructure"

\* C9 as stated: on the keyword paths, a question that mentions switches and
\* environment and also server goes to the Intersight expert, whatever else
\* it says.
C9_ServerTermGivesIntersight ==
    (ByKeywords /\ SwitchesInEnvironment(cq) /\ Contains(Lower(cq), "server"))
    => cres.kind = "intersight"

GeneralPhrasing(query) ==
    ContainsAny(Lower(query), {"what is", "how does", "explain", "tell me about"})

HasProductTerm(query) ==
    ContainsAny(Lower(query), {"intersight", "nexus", "ai pod", "my environment",
                               "my server", "my switches"})

\* C10 as stated: on every keyword path, a question in general-knowledge
\* phrasing that names no product goes to the General Expert.
C10_GeneralPhrasingGivesGeneral ==
    (ByKeywords /\ GeneralPhrasing(cq) /\ ~HasProductTerm(cq))
    => cres.kind = "general"

\* The LLM parameter-size tokens of the AI Pods keyword group.
HasSizeToken(query) ==
    ContainsAny(Lower(query), {"7b", "13b", "40b", "70b", "billion parameter"})

\* C11 as stated: on the keyword paths, a question that contains an LLM
\* parameter-size token goes to the AI Pods expert.
C11_SizeTokenGivesAIPods ==
    (ByKeywords /\ HasSizeToken(cq)) => cres.kind = "ai_pods"

\* The request was a switch question answered by the Infrastructure expert
\* with both vendor calls made.
MergedSwitchAnswer ==
    /\ rpc = "done"
    /\ ReqKind = "infrastructure"
    /\ InList("infrastructure.intersight.get_network_elements", callLog)
    /\ InList("infrastructure.nexus_dashboard.get_all_switches", callLog)

\* C12 as stated: the merged response of a switch question has a labeled
\* section for Intersight and one for Nexus Dashboard, for every combination of
\* per-source outcomes, unexpected response shapes included, and the request
\* does not fail.
C12_TwoLabeledSections ==
    MergedSwitchAnswer
    => /\ Contains(apiResponse, "## Intersight Network Elements")
       /\ Contains(apiResponse, "## Nexus Dashboard Switches")
       /\ ~expertRes.raised

\* One of the three detectors of the Intersight expert matches the question:
\* GPU, firmware of a named server, or server inventory.
DetectorMatches(question) ==
    \/ IsGpuQuery(Lower(question))
    \/ FirmwareServerName(Lower(question)) # ""
    \/ IsInventoryQuery(Lower(question))

\* C13 as stated: whenever a detector of the Intersight expert matches the
\* question, the answer is built from the narrow vendor call and the expert's
\* LLM is not invoked for that request.
C13_DetectorSkipsLLM ==
    (rpc = "done" /\ ReqKind = "intersight" /\ DetectorMatches(reqQuestion))
    => ~InList("intersight.llm", callLog)

\* C14 as stated: an expert whose get_response met a failure signals it by
\* raising, never by returning normally with the error as its text, so that
\* the router's except branch for that expert runs.
C14_FailureIsRaised ==
    (rpc \in {"fallback", "done"} /\ expertRes.cause # "")
    => /\ expertRes.raised
       /\ result.label # Labels[ReqKind]

(***************************************************************************)
(* C15: constructing the ExpertRouter succeeds when a vendor client cannot *)
(* be constructed.  Whenever everything but the vendor clients can be      *)
(* built, no get_router call raises, whatever the Intersight key and the   *)
(* Nexus Dashboard credentials and logins are, and the router a caller     *)
(* holds has each vendor failure recorded on the client it concerns.       *)
(***************************************************************************)
VendorFailuresRecorded ==
    /\ intersightInitFailed = ~startEnv.intersightKey
    /\ nexusInitFailed = (~startEnv.nexusCredentials \/ ~startEnv.login)
    /\ infraIntersightInitFailed = ~startEnv.intersightKey
    /\ infraNexusInitFailed = (~startEnv.nexusCredentials \/ ~startEnv.infraLogin)

C15_ConstructionSurvivesVendorFailure ==
    env.embeddings =>
        /\ constructError = ""
        /\ (held # 0 => router # 0 /\ VendorFailuresRecorded)

\* A router built without the Intersight key and without Nexus Dashboard
\* credentials has answered a request.
C15_Witness ==
    /\ rpc = "done"
    /\ held # 0
    /\ ~env.intersightKey
    /\ ~env.nexusCredentials
    /\ intersightInitFailed
    /\ nexusInitFailed
    /\ constructError = ""

(***************************************************************************)
(* C16: across any sequence of get_expert_router calls in one process the  *)
(* ExpertRouter is constructed at most once, on first use, and every call  *)
(* returns that same instance: at most one instance has ever been built,   *)
(* none before a request asked for it, the cache holds that instance, and  *)
(* every request in flight holds it.                                       *)
(***************************************************************************)
C16_RouterBuiltOnce ==
    /\ built <= 1
    /\ router = built
    /\ \A p \in Requests : task[p].got \in {0, router}
    /\ (built = 0 => \A p \in Requests : task[p].got = 0)

\* Two requests in flight hold the one instance that was built.
C16_Witness ==
    /\ built = 1
    /\ \A p \in Requests : task[p].pc \notin {"idle", "done"} /\ task[p].got = 1

(***************************************************************************)
(* C17: handling a request never writes state that another concurrent      *)
(* request reads, so any interleaving gives each request the result it     *)
(* would get alone: a finished request's result is what _make_request      *)
(* returns when run without interruption on the client as the request      *)
(* found it, the server giving the same answers.                           *)
(***************************************************************************)
C17_ResultAsAlone ==
    \A p \in Requests :
        (task[p].pc = "done" /\ task[p].got # 0) =>
            task[p].res = MakeRequest(task[p].start, task[p].script)

(***************************************************************************)
(* C18: the keyword heuristic gives the same kind for a question whether   *)
(* it is entered because the LLM call raised or because the reply had no   *)
(* usable match: a kind chosen by keywords is the kind each of the two     *)
(* branches computes for that question.                                    *)
(***************************************************************************)
C18_SameKindOnBothPaths ==
    ByKeywords =>
        /\ cres.kind = ExceptHeuristic(cq)
        /\ cres.kind = NoMatchHeuristic(cq)

\* The last five whitespace-separated tokens of the normalized reply.
ReplyTail(content) == LastN(Split(Lower(Strip(content))), 5)

\* The tokens name the kind: by its identifier as a token, or by the alias
\* "ai pods" / "nexus dashboard" in the tokens joined by single spaces.
TailNames(kind, tail) ==
    \/ InList(kind, tail)
    \/ kind = "ai_pods" /\ Contains(Join(tail), "ai pods")
    \/ kind = "nexus_dashboard" /\ Contains(Join(tail), "nexus dashboard")

(***************************************************************************)
(* C19: when the normalized reply is not exactly one of the five           *)
(* identifiers, only its final five tokens are inspected: the kind is      *)
(* taken from the reply exactly when those tokens name a kind, the kind    *)
(* taken is one they name, and otherwise the keyword tests on the question *)
(* decide, whatever identifier occurs earlier in the reply.                *)
(***************************************************************************)
C19_OnlyTailInspected ==
    (/\ cpc = "classified"
     /\ ~creply.raises
     /\ Lower(Strip(creply.content)) \notin ExpertKinds)
    => /\ cres.via \in {"tail", "heuristic"}
       /\ cres.via = "tail" <=>
              \E kind \in ExpertKinds : TailNames(kind, ReplyTail(creply.content))
       /\ cres.via = "tail" => TailNames(cres.kind, ReplyTail(creply.content))
       /\ cres.via = "heuristic" => cres.kind = NoMatchHeuristic(cq)

\* A reply of ten tokens whose first token is an identifier: it is ignored
\* and the "what is" question goes by the keyword tests.
C19_Witness ==
    /\ cpc = "classified"
    /\ creply.content = "intersight could be right but honestly i can not tell"
    /\ cres.via = "heuristic"
    /\ cres.kind # "intersight"

(***************************************************************************)
(* C20: within one request the steps happen in a fixed order and none is   *)
(* repeated: the classification is the first step and the only one of its  *)
(* kind, the selected expert is called once, right after it, the General   *)
(* Expert is called as a fallback at most once and only right after a      *)
(* call of the selected expert that raised, and the return is the last     *)
(* step and follows the last call of an expert.                            *)
(***************************************************************************)
C20_StepsInOrder ==
    /\ \A i \in 1..Len(steps) :
          /\ steps[i].op = "classify" <=> i = 1
          /\ steps[i].op = "expert" <=> i = 2
          /\ steps[i].op = "fallback" =>
                i = 3 /\ steps[2].op = "expert" /\ steps[2].raised
          /\ steps[i].op = "return" =>
                i = Len(steps) /\ i >= 3 /\ steps[i - 1].op \in {"expert", "fallback"}
    /\ rpc = "dispatch" => Len(steps) = 1
    /\ rpc = "fallback" => Len(steps) = 2 /\ steps[2].raised
    /\ rpc = "done" => steps[Len(steps)].op \in {"expert", "fallback"}
    /\ rpc = "idle" => steps = <<>> \/ steps[Len(steps)].op = "return"

\* A request went through all four steps: classification, an expert that
\* raised, the General Expert as fallback, the return.
C20_Witness ==
    /\ rpc = "idle"
    /\ Len(steps) = 4
    /\ steps[2] = Step("expert", TRUE)
    /\ steps[3].op = "fallback"
    /\ steps[4].op = "return"

\* The answered (or failed) request went to the expert of this kind.
RequestWent(kind) == rpc \in {"fallback", "done"} /\ ReqKind = kind

\* No call in the log was made to a vendor client under this prefix.
NoVendorCall(prefix) == \A i \in 1..Len(callLog) : ~StartsWith(callLog[i], prefix)

(***************************************************************************)
(* C21: once a vendor client has failed to initialize at construction it   *)
(* stays unavailable for the rest of the process.  The flags of the router *)
(* are those recorded from the environment the process started in, also    *)
(* after the environment has recovered, and a request that goes to an      *)
(* expert whose client failed gets the recorded initialization error from  *)
(* query, with no call to the vendor and no new login.                     *)
(***************************************************************************)
C21_FailedClientStaysFailed ==
    router # 0 =>
        /\ VendorFailuresRecorded
        /\ (RequestWent("intersight") /\ intersightInitFailed) =>
              /\ apiResponse = "Error: Intersight API initialization failed - "
                                  \o IntersightInitError
                                  \o ". Please check your API credentials."
              /\ NoVendorCall("intersight.get")
        /\ (RequestWent("nexus_dashboard") /\ nexusInitFailed) =>
              /\ apiResponse = "Error: Nexus Dashboard API initialization failed. "
                                  \o NexusInitError
              /\ NoVendorCall("nexus_dashboard.request")
        /\ (RequestWent("infrastructure")
              /\ (infraIntersightInitFailed \/ infraNexusInitFailed)) =>
              /\ apiResponse = "Error: Infrastructure API initialization failed. "
                                  \o InfrastructureInitError(infraIntersightInitFailed,
                                                             infraNexusInitFailed)
              /\ NoVendorCall("infrastructure.intersight")
              /\ NoVendorCall("infrastructure.nexus_dashboard")

\* The credentials were supplied after construction and a later request to
\* the Nexus Dashboard expert was still answered from the recorded failure.
C21_Witness ==
    /\ env = FullEnvironment
    /\ ~startEnv.nexusCredentials
    /\ rpc = "done"
    /\ ReqKind = "nexus_dashboard"
    /\ nexusInitFailed
    /\ Contains(apiResponse, "initialization failed")

\* The position of the first occurrence of w in ws, 0 if there is none.
IndexOf(w, ws) ==
    IF InList(w, ws) THEN CHOOSE i \in 1..Len(ws) : ws[i] = w /\ \A j \in 1..(i - 1) : ws[j] # w
    ELSE 0

(***************************************************************************)
(* C22 as stated: on every request the Infrastructure Expert handles it    *)
(* makes both vendor calls, the Intersight switches call and then the      *)
(* Nexus Dashboard switches call, whatever the first call gave and also    *)
(* when only one of its two vendor clients initialized.                    *)
(***************************************************************************)
C22_BothVendorCalls ==
    RequestWent("infrastructure") =>
        /\ InList("infrastructure.intersight.get_network_elements", callLog)
        /\ InList("infrastructure.nexus_dashboard.get_all_switches", callLog)
        /\ IndexOf("infrastructure.intersight.get_network_elements", callLog)
              < IndexOf("infrastructure.nexus_dashboard.get_all_switches", callLog)

NamePrefix(w) == SubSeq(w, 1, NameEnd(w, 1) - 1)

\* words[k], words[k + 1], words[k + 2] are a word ending in lead, the word
\* "server" and a word that starts with a name.
ServerPhraseAt(words, k, lead) ==
    /\ k + 2 <= Len(words)
    /\ EndsWith(words[k], lead)
    /\ words[k + 1] = "server"
    /\ NamePrefix(words[k + 2]) # ""

\* The firmware question was answered from the direct firmware call.
AnsweredDirectly ==
    /\ ~eres.raised
    /\ Len(eres.calls) > 0
    /\ eres.calls[Len(eres.calls)] = "intersight.get_firmware_for_server"
    /\ ein.direct = "data"

\* The Intersight expert took name for the server name of the question eq.
ServerNameIs(name) ==
    /\ FirmwareServerName(Lower(eq)) = name
    /\ AnsweredDirectly => eres.text = FormatFirmwareResponse(name)

(***************************************************************************)
(* C24 as stated: for a firmware question that contains "for server        *)
(* <name>", wherever the phrase stands in the question, the Intersight     *)
(* Expert extracts exactly <name>, lowercased, as the server name.         *)
(***************************************************************************)
C24_AnyForServerPhrase ==
    (epc = "answered" /\ IsFirmwareQuery(Lower(eq))) =>
        \A k \in 1..Len(Split(Lower(eq))) :
            (/\ ServerPhraseAt(Split(Lower(eq)), k, "")
             /\ Split(Lower(eq))[k] = "for")
            => ServerNameIs(NamePrefix(Split(Lower(eq))[k + 2]))

\* No phrase "... for server <name>" or "... on server <name>" begins before
\* word k of the question.
FirstServerPhrase(words, k) ==
    \A j \in 1..(k - 1) :
        ~ServerPhraseAt(words, j, "for") /\ ~ServerPhraseAt(words, j, "on")

(***************************************************************************)
(* C24 as the code has it: for a firmware question that contains "for      *)
(* server <name>", with no earlier "for server" or "on server" phrase, the *)
(* Intersight Expert extracts exactly <name>, lowercased: the patterns are *)
(* tried in their listed order, the first that matches decides, and it     *)
(* decides by its leftmost match.                                          *)
(***************************************************************************)
C24_FirstForServerPhrase ==
    (epc = "answered" /\ IsFirmwareQuery(Lower(eq))) =>
        \A k \in 1..Len(Split(Lower(eq))) :
            (/\ ServerPhraseAt(Split(Lower(eq)), k, "")
             /\ Split(Lower(eq))[k] = "for"
             /\ FirstServerPhrase(Split(Lower(eq)), k))
            => ServerNameIs(NamePrefix(Split(Lower(eq))[k + 2]))

\* The question also matches the "upgrade xyz to" pattern, which is tried
\* later, and the answer is the firmware table of web-01.
C24_Witness ==
    /\ epc = "answered"
    /\ eq = "upgrade firmware to 4.2 for server web-01"
    /\ AnsweredDirectly
    /\ eres.text = FormatFirmwareResponse("web-01")

(***************************************************************************)
(* ExpertRouter.get_response of bridgyv2-main on its own: one call on any  *)
(* question, with any behaviour of the selected and the General Expert.    *)
(***************************************************************************)
\* What the two experts do when get_response calls them.
GetResponseInputs ==
    [expert : {"answers", "raises"}, general : {"answers", "raises"}]

\* self._route_question(question): the class defines __init__,
\* route_and_respond, _determine_expert_with_cot, _basic_routing_fallback, the
\* five _is_*_query methods and get_response, and no _route_question, so the
\* attribute lookup raises before anything is assigned to expert_name.
RouteQuestion(question) ==
    [raised |-> TRUE, name |-> "unbound",
     error |-> "'ExpertRouter' object has no attribute '_route_question'"]

\* The except clause of get_response once expert_name is bound: the General
\* Expert answers, or the apology carries the first error.
GetResponseFallback(in, error) ==
    IF in.general = "answers"
    THEN [raised |-> FALSE, text |-> "general answer", error |-> ""]
    ELSE [raised |-> FALSE,
          text |-> "I'm sorry, but I encountered an error while processing your question: "
                   \o error,
          error |-> ""]

\* ExpertRouter.get_response(question).  The first statement of the except
\* clause formats expert_name: when the routing call itself raised, the name
\* is unbound and the handler raises UnboundLocalError out of get_response.
RouterGetResponse(question, in) ==
    LET routed == RouteQuestion(question) IN
    IF routed.raised
    THEN [raised |-> TRUE, text |-> "",
          error |-> "cannot access local variable 'expert_name' where it is not associated with a value"]
    ELSE IF in.expert = "answers"
         THEN [raised |-> FALSE, text |-> "expert answer", error |-> ""]
         ELSE GetResponseFallback(in, "expert error")

RespondInit ==
    /\ env = [intersightKey |-> TRUE, nexusCredentials |-> TRUE, login |-> TRUE,
              infraLogin |-> TRUE, embeddings |-> TRUE]
    /\ NoRouter
    /\ RouterIdle
    /\ ClassifierOff
    /\ ExpertOff
    /\ TasksOff
    /\ ThreadsOff
    /\ FollowUpsOff
    /\ ChatOff
    /\ gq \in RouterQuestions
    /\ gin \in GetResponseInputs
    /\ gres = NoReply
    /\ gpc = "new"

Respond ==
    /\ gpc = "new"
    /\ gres' = RouterGetResponse(gq, gin)
    /\ gpc' = "returned"
    /\ UNCHANGED <<gq, gin, ovars, hvars, fvars, wvars>>

RespondNext == Respond

SpecRespond == RespondInit /\ [][RespondNext]_vars

\* C25: ExpertRouter.get_response returns an answer string for every question
\* and never raises: the selected expert's answer, else the General Expert's,
\* else an apology string.
C25_AlwaysAnswers ==
    gpc = "returned" =>
        /\ ~gres.raised
        /\ gres.text # ""
        /\ (gin.expert = "answers" => gres.text = "expert answer")
        /\ (gin.expert = "raises" /\ gin.general = "answers"
                => gres.text = "general answer")

(***************************************************************************)
(* The thread API of bridgy-main/main.py: create_thread, send_message,     *)
(* get_thread and delete_thread, run by two clients whose requests         *)
(* interleave where a handler awaits a MongoDB operation.                  *)
(***************************************************************************)
\* memory_messages[thread_id].append(doc), after "if thread_id not in
\* memory_messages: memory_messages[thread_id] = []".
AppendMessage(mm, tid, doc) ==
    IF tid \in DOMAIN mm
    THEN [mm EXCEPT ![tid] = Append(@, doc)]
    ELSE [t \in DOMAIN mm \cup {tid} |-> IF t = tid THEN <<doc>> ELSE mm[t]]

\* del memory_messages[thread_id]
DeleteKey(mm, tid) ==
    IF DOMAIN mm \ {tid} = {}
    THEN <<>>
    ELSE [t \in DOMAIN mm \ {tid} |-> mm[t]]

\* get_unix_timestamp is defined without parameters: a call with arguments
\* raises TypeError.
GetUnixTimestamp(arguments) == [raised |-> arguments # 0]

\* The loop of get_thread over the stored messages of a thread: each round
\* builds the user item with get_unix_timestamp(message.timestamp).
ThreadItems(count) ==
    IF count = 0
    THEN [raised |-> FALSE, items |-> <<>>]
    ELSE [raised |-> GetUnixTimestamp(1).raised, items |-> <<>>]

\* The return statement of delete_thread builds its result from
\* message_result.deleted_count; no statement of the module binds
\* message_result, so it raises NameError, which the handler's
\* "except Exception" turns into HTTPException(500).
DeleteResult(deleted) == IF ~deleted THEN 404 ELSE 500

Free(c) == req[c].pc \in {"idle", "done"}

\* create_thread up to its await, or to its end when MongoDB is off.
BeginCreate(c) ==
    /\ Free(c)
    /\ threadsMade < MaxThreads
    /\ threadsMade' = threadsMade + 1
    /\ LET id == ThreadNames[threadsMade + 1] IN
       IF MONGO_ENABLED
       THEN /\ req' = [req EXCEPT ![c] = Await(Request("create", id, TRUE), "insert_one")]
            /\ UNCHANGED memory_threads
       ELSE /\ memory_threads' = memory_threads \cup {id}
            /\ req' = [req EXCEPT ![c] = Ended(Request("create", id, TRUE), 200)]
    /\ UNCHANGED <<MONGO_ENABLED, memory_messages, db_threads, db_messages, clock, sendsMade>>
    /\ UNCHANGED <<ovars, gvars, fvars, wvars>>

\* create_thread after insert_one.
CreateStored(c) ==
    /\ req[c].op = "create"
    /\ req[c].pc = "insert_one"
    /\ db_threads' = db_threads \cup {req[c].tid}
    /\ memory_threads' = memory_threads \cup {req[c].tid}
    /\ req' = [req EXCEPT ![c] = Ended(@, 200)]
    /\ UNCHANGED <<MONGO_ENABLED, memory_messages, db_messages, clock, threadsMade, sendsMade>>
    /\ UNCHANGED <<ovars, gvars, fvars, wvars>>

\* send_message from the thread lookup in memory to the await of insert_one,
\* or to its end: 404, 400, or the message stored in memory.
SendChecked(c, r, inDb) ==
    LET thread == inDb \/ r.tid \in memory_threads IN
    IF ~thread
    THEN /\ req' = [req EXCEPT ![c] = Ended(r, 404)]
         /\ UNCHANGED <<memory_messages, clock>>
    ELSE IF ~r.match
    THEN /\ req' = [req EXCEPT ![c] = Ended([r EXCEPT !.found = TRUE], 400)]
         /\ UNCHANGED <<memory_messages, clock>>
    ELSE \E now \in clock..MaxTime :
         LET doc == [messageId |-> r.mid, threadId |-> r.tid, timestamp |-> now]
             s == [r EXCEPT !.found = TRUE, !.doc = doc]
         IN  /\ clock' = now
             /\ IF MONGO_ENABLED
                THEN /\ req' = [req EXCEPT ![c] = Await(s, "insert_one")]
                     /\ UNCHANGED memory_messages
                ELSE /\ memory_messages' = AppendMessage(memory_messages, r.tid, doc)
                     /\ req' = [req EXCEPT ![c] = Ended(s, 200)]

\* A send_message request; mid is the uuid that generate_id() will give its
\* message, different for every request.
NewMessage(tid, match) ==
    [Request("send", tid, match) EXCEPT !.mid = sendsMade + 1]

\* send_message up to its first await, or to SendChecked when MongoDB is off.
BeginSend(c, tid, match) ==
    /\ Free(c)
    /\ sendsMade < MaxSends
    /\ sendsMade' = sendsMade + 1
    /\ IF MONGO_ENABLED
       THEN /\ req' = [req EXCEPT ![c] = Await(NewMessage(tid, match), "find_one")]
            /\ UNCHANGED <<memory_messages, clock>>
       ELSE SendChecked(c, NewMessage(tid, match), FALSE)
    /\ UNCHANGED <<MONGO_ENABLED, memory_threads, db_threads, db_messages, threadsMade>>
    /\ UNCHANGED <<ovars, gvars, fvars, wvars>>

\* send_message after find_one.
SendFound(c) ==
    /\ req[c].op = "send"
    /\ req[c].pc = "find_one"
    /\ SendChecked(c, req[c], req[c].tid \in db_threads)
    /\ UNCHANGED <<MONGO_ENABLED, memory_threads, db_threads, db_messages, threadsMade, sendsMade>>
    /\ UNCHANGED <<ovars, gvars, fvars, wvars>>

\* send_message after insert_one: the message goes into memory as well.
SendStored(c) ==
    /\ req[c].op = "send"
    /\ req[c].pc = "insert_one"
    /\ db_messages' = db_messages \cup {req[c].doc}
    /\ memory_messages' = AppendMessage(memory_messages, req[c].tid, req[c].doc)
    /\ req' = [req EXCEPT ![c] = Ended(@, 200)]
    /\ UNCHANGED <<MONGO_ENABLED, memory_threads, db_threads, clock, threadsMade, sendsMade>>
    /\ UNCHANGED <<ovars, gvars, fvars, wvars>>

\* delete_thread from "Also remove from memory storage" to its end.
DeleteMemory(c, r) ==
    LET deleted == r.deleted \/ r.tid \in memory_threads IN
    /\ memory_threads' = memory_threads \ {r.tid}
    /\ memory_messages' = DeleteKey(memory_messages, r.tid)
    /\ req' = [req EXCEPT ![c] = Ended([r EXCEPT !.deleted = deleted], DeleteResult(deleted))]

\* delete_thread up to its first await, or to its end when MongoDB is off.
BeginDelete(c, tid) ==
    /\ Free(c)
    /\ LET r == [Request("delete", tid, TRUE) EXCEPT
                    !.found = tid \in memory_threads \cup db_threads,
                    !.stored = IF tid \in DOMAIN memory_messages
                               THEN Len(memory_messages[tid]) ELSE 0]
       IN IF MONGO_ENABLED
          THEN /\ req' = [req EXCEPT ![c] = Await(r, "delete_one")]
               /\ UNCHANGED <<memory_threads, memory_messages>>
          ELSE DeleteMemory(c, r)
    /\ UNCHANGED <<MONGO_ENABLED, db_threads, db_messages, clock, threadsMade, sendsMade>>
    /\ UNCHANGED <<ovars, gvars, fvars, wvars>>

\* delete_thread after delete_one.
DeleteOne(c) ==
    /\ req[c].op = "delete"
    /\ req[c].pc = "delete_one"
    /\ db_threads' = db_threads \ {req[c].tid}
    /\ IF req[c].tid \in db_threads
       THEN /\ req' = [req EXCEPT ![c] = Await([@ EXCEPT !.deleted = TRUE], "delete_many")]
            /\ UNCHANGED <<memory_threads, memory_messages>>
       ELSE DeleteMemory(c, req[c])
    /\ UNCHANGED <<MONGO_ENABLED, db_messages, clock, threadsMade, sendsMade>>
    /\ UNCHANGED <<ovars, gvars, fvars, wvars>>

\* delete_thread after delete_many.
DeleteMany(c) ==
    /\ req[c].op = "delete"
    /\ req[c].pc = "delete_many"
    /\ db_messages' = {d \in db_messages : d.threadId # req[c].tid}
    /\ DeleteMemory(c, req[c])
    /\ UNCHANGED <<MONGO_ENABLED, db_threads, clock, threadsMade, sendsMade>>
    /\ UNCHANGED <<ovars, gvars, fvars, wvars>>

\* get_thread from "check memory storage" to its end.  thread says whether
\* MongoDB had the thread; the items read from MongoDB are in r.items.
GetMemory(c, r, thread) ==
    LET inMemory == ~thread /\ r.tid \in memory_threads
        count == IF inMemory /\ r.tid \in DOMAIN memory_messages
                 THEN Len(memory_messages[r.tid]) ELSE 0
        read == ThreadItems(count)
        s == [r EXCEPT !.found = thread \/ inMemory,
                       !.stored = IF inMemory THEN count ELSE r.stored]
    IN  req' = [req EXCEPT ![c] =
                   IF read.raised THEN Ended(s, 500)
                   ELSE IF ~s.found THEN Ended(s, 404)
                   ELSE Ended([s EXCEPT !.items = r.items \o read.items], 200)]

\* get_thread up to its first await, or to its end when MongoDB is off.
BeginGet(c, tid) ==
    /\ Free(c)
    /\ IF MONGO_ENABLED
       THEN req' = [req EXCEPT ![c] = Await(Request("get", tid, TRUE), "find_one")]
       ELSE GetMemory(c, Request("get", tid, TRUE), FALSE)
    /\ UNCHANGED <<MONGO_ENABLED, memory_threads, memory_messages, db_threads, db_messages,
                   clock, threadsMade, sendsMade>>
    /\ UNCHANGED <<ovars, gvars, fvars, wvars>>

\* get_thread after find_one: the messages of the thread are read from
\* MongoDB; an exception in that loop is logged and the handler goes on with
\* the items appended so far.
GetFound(c) ==
    /\ req[c].op = "get"
    /\ req[c].pc = "find_one"
    /\ LET thread == req[c].tid \in db_threads
           count == IF thread
                    THEN Cardinality({d \in db_messages : d.threadId = req[c].tid})
                    ELSE 0
           read == ThreadItems(count)
       IN GetMemory(c, [req[c] EXCEPT !.stored = count, !.items = read.items], thread)
    /\ UNCHANGED <<MONGO_ENABLED, memory_threads, memory_messages, db_threads, db_messages,
                   clock, threadsMade, sendsMade>>
    /\ UNCHANGED <<ovars, gvars, fvars, wvars>>

ThreadsInit ==
    /\ env = [intersightKey |-> TRUE, nexusCredentials |-> TRUE, login |-> TRUE,
              infraLogin |-> TRUE, embeddings |-> TRUE]
    /\ NoRouter
    /\ RouterIdle
    /\ ClassifierOff
    /\ ExpertOff
    /\ TasksOff
    /\ GetResponseOff
    /\ FollowUpsOff
    /\ ChatOff
    /\ MONGO_ENABLED \in BOOLEAN
    /\ memory_threads = {}
    /\ memory_messages = <<>>
    /\ db_threads = {}
    /\ db_messages = {}
    /\ clock = 0
    /\ threadsMade = 0
    /\ sendsMade = 0
    /\ req = [c \in Clients |-> IdleRequest]

ThreadsNext ==
    \E c \in Clients :
        \/ BeginCreate(c)
        \/ CreateStored(c)
        \/ \E tid \in ThreadIds, match \in BOOLEAN : BeginSend(c, tid, match)
        \/ SendFound(c)
        \/ SendStored(c)
        \/ \E tid \in ThreadIds : BeginDelete(c, tid)
        \/ DeleteOne(c)
        \/ DeleteMany(c)
        \/ \E tid \in ThreadIds : BeginGet(c, tid)
        \/ GetFound(c)

SpecThreads == ThreadsInit /\ [][ThreadsNext]_vars

\* The step in which client c's delete_thread request ends.
DeleteEnds(c) ==
    /\ req'[c] # req[c]
    /\ req'[c].op = "delete"
    /\ req'[c].pc = "done"

\* Nothing is stored for thread tid.
Forgotten(tid) ==
    /\ tid \notin memory_threads
    /\ tid \notin DOMAIN memory_messages
    /\ tid \notin db_threads
    /\ \A d \in db_messages : d.threadId # tid

MaxLines == 3

\* Lines a router response is made of.
LineSamples ==
    {"", "Two questions:", "1. How to upgrade?", "2.", "- Which servers?",
     "  What is a VLAN?  ", "Can you explain that in more detail?"}

\* '\n'.join(lines)
RECURSIVE JoinLinesFrom(_, _)
JoinLinesFrom(ls, i) ==
    IF i > Len(ls) THEN ""
    ELSE IF i = Len(ls) THEN ls[i]
    ELSE ls[i] \o "\n" \o JoinLinesFrom(ls, i + 1)

JoinLines(ls) == JoinLinesFrom(ls, 1)

\* The router raises, or returns a response of up to MaxLines lines.
FollowUpInputs ==
    {[raises |-> TRUE, response |-> ""]} \cup
    {[raises |-> FALSE, response |-> JoinLines(ls)] :
        ls \in UNION {[1..n -> LineSamples] : n \in 0..MaxLines}}

\* str.split('\n'): the pieces between the newlines, empty ones included.
RECURSIVE SplitLinesFrom(_, _)
SplitLinesFrom(s, start) ==
    LET stops == {j \in start..Len(s) : Char(s, j) = "\n"} IN
    IF stops = {} THEN <<SubSeq(s, start, Len(s))>>
    ELSE LET e == CHOOSE j \in stops : \A k \in stops : j <= k
         IN  <<SubSeq(s, start, e - 1)>> \o SplitLinesFrom(s, e + 1)

SplitLines(s) == SplitLinesFrom(s, 1)

\* The condition of the list comprehension that picks the question lines.
KeepsLine(line) ==
    /\ Strip(line) # ""
    /\ \/ Contains(line, "?")
       \/ StartsWith(Strip(line), "1.")
       \/ StartsWith(Strip(line), "2.")

\* potential_questions
RECURSIVE PotentialFrom(_, _)
PotentialFrom(ls, i) ==
    IF i > Len(ls) THEN <<>>
    ELSE IF KeepsLine(ls[i]) THEN <<Strip(ls[i])>> \o PotentialFrom(ls, i + 1)
    ELSE PotentialFrom(ls, i + 1)

PotentialQuestions(response) == PotentialFrom(SplitLines(response), 1)

\* The prefixes the clean-up removes (the source also lists the bullet
\* character U+2022, which no line of LineSamples starts with).
CleanPrefixes == {"1.", "2.", "3.", "-", "*"}

\* The body of the clean-up loop: q.strip(), then [2:].strip() after a prefix.
CleanQuestion(q) ==
    LET cleaned_q == Strip(q) IN
    IF \E p \in CleanPrefixes : StartsWith(cleaned_q, p)
    THEN Strip(SubSeq(cleaned_q, 3, Len(cleaned_q)))
    ELSE cleaned_q

\* cleaned_questions
CleanedQuestions(response) ==
    LET potential == PotentialQuestions(response) IN
    [i \in 1..Len(potential) |-> CleanQuestion(potential[i])]

\* generic_fallbacks, a stand-in with a single question.
GenericFallbacksShort == <<"Can you explain that in more detail?">>

\* generic_fallbacks
GenericFallbacks ==
    <<"Can you explain that in more detail?",
      "What are the implications of this?",
      "How does this relate to other Cisco technologies?",
      "Can you provide a practical example?">>

\* generic_followups of the except clause
GenericFollowups ==
    <<"Can you explain that in more detail?",
      "What are the implications of this?",
      "How does this relate to other Cisco technologies?",
      "Can you provide an example?">>

\* "while len(cleaned_questions) < 2": each round appends the first generic
\* question that is not in the list yet; a round that finds none appends
\* nothing, and the loop then never ends.
RECURSIVE FillGeneric(_)
FillGeneric(cleaned) ==
    IF Len(cleaned) >= 2
    THEN [returned |-> TRUE, raised |-> FALSE, list |-> SubSeq(cleaned, 1, 2)]
    ELSE LET missing == {i \in 1..Len(GenericFallbacks) :
                            ~InList(GenericFallbacks[i], cleaned)}
         IN  IF missing = {}
             THEN [returned |-> FALSE, raised |-> FALSE, list |-> cleaned]
             ELSE FillGeneric(Append(cleaned,
                     GenericFallbacks[CHOOSE i \in missing : \A j \in missing : i <= j]))

\* random.sample(generic_followups, 2): two different entries, in any order.
SampleTwo ==
    {<<GenericFollowups[p[1]], GenericFollowups[p[2]]>> :
        p \in {q \in (1..Len(GenericFollowups)) \X (1..Len(GenericFollowups)) :
                  q[1] # q[2]}}

\* generate_follow_ups: the results it can give for one router outcome.
GenerateFollowUps(in) ==
    IF in.raises
    THEN {[returned |-> TRUE, raised |-> FALSE, list |-> l] : l \in SampleTwo}
    ELSE {FillGeneric(CleanedQuestions(in.response))}

FollowUpsInit ==
    /\ env = [intersightKey |-> TRUE, nexusCredentials |-> TRUE, login |-> TRUE,
              infraLogin |-> TRUE, embeddings |-> TRUE]
    /\ NoRouter
    /\ RouterIdle
    /\ ClassifierOff
    /\ ExpertOff
    /\ TasksOff
    /\ GetResponseOff
    /\ ThreadsOff
    /\ ChatOff
    /\ fin \in FollowUpInputs
    /\ fres = NoFollowUps
    /\ fpc = "new"

FollowUp ==
    /\ fpc = "new"
    /\ fres' \in GenerateFollowUps(fin)
    /\ fpc' = "returned"
    /\ UNCHANGED <<fin, ovars, gvars, hvars, wvars>>

FollowUpsNext == FollowUp

SpecFollowUps == FollowUpsInit /\ [][FollowUpsNext]_vars

\* C29: generate_follow_ups always terminates and returns a list of exactly
\* two follow-up questions: the first two question lines of the response when
\* it has two or more, the question lines filled up with generic questions
\* when it has fewer, two generic questions when the router call raises.
C29_TwoFollowUps ==
    fpc = "returned" =>
        /\ fres.returned
        /\ ~fres.raised
        /\ Len(fres.list) = 2
        /\ LET cleaned == CleanedQuestions(fin.response) IN
           /\ ~fin.raises /\ Len(cleaned) >= 2 => fres.list = SubSeq(cleaned, 1, 2)
           /\ ~fin.raises /\ Len(cleaned) < 2 =>
                 /\ SubSeq(fres.list, 1, Len(cleaned)) = cleaned
                 /\ \A i \in (Len(cleaned) + 1)..2 : InList(fres.list[i], GenericFallbacks)
           /\ fin.raises =>
                 /\ InList(fres.list[1], GenericFollowups)
                 /\ InList(fres.list[2], GenericFollowups)
                 /\ fres.list[1] # fres.list[2]

\* A response with a single question line came back and a generic question
\* filled the list.
C29_Witness ==
    /\ fpc = "returned"
    /\ fin = [raises |-> FALSE, response |-> "Two questions:\n- Which servers?"]
    /\ fres.list = <<"Which servers?", "Can you explain that in more detail?">>

(***************************************************************************)
(* websocket_chat_handler of bridgy-api/main.py: one connection, from      *)
(* accept to the end of the handler.                                       *)
(***************************************************************************)
MaxChat == 3

MaxLate == 2

\* What the client sends: text that is no JSON, JSON that is no ChatRequest,
\* or a valid request.
MessageKinds == {"bad_json", "bad_schema", "valid"}

\* How _get_ollama_reply ends: with the reply, or with one of the
\* OllamaServiceError subclasses it raises.
OllamaOutcomes == {"reply", "timeout", "request_error", "processing_error"}

\* What send_json does on a connection whose client has disconnected: it
\* raises WebSocketDisconnect, it raises another exception, or the server
\* drops the message without an error.
LateSendOutcomes == {"disconnect", "error", "dropped"}

\* The except clause of the inner try that catches an exception raised while
\* a message is received and processed.  WebSocketDisconnect and the
\* RuntimeError of a receive on a closed connection are Exceptions that are
\* neither of the first two clauses.
InnerClause(exception) ==
    IF exception \in {"JSONDecodeError", "ValidationError"} THEN "invalid"
    ELSE IF exception \in {"OllamaTimeoutError", "OllamaRequestError",
                           "OllamaProcessingError"} THEN "ollama"
    ELSE "internal"

\* The JSON object each inner except clause sends.
ErrorJson(clause, exception) ==
    IF clause = "invalid" THEN [error |-> "Invalid data format", status_code |-> 0]
    ELSE IF clause = "ollama"
    THEN [error |-> exception,
          status_code |-> IF exception = "OllamaTimeoutError" THEN 504
                          ELSE IF exception = "OllamaRequestError" THEN 503
                          ELSE 500]
    ELSE [error |-> "An internal server error occurred while processing your message.",
          status_code |-> 0]

ReplyJson == [error |-> "", status_code |-> 0]

\* The exception json.loads or ChatRequest(**data) raises for a message.
ParseError(kind) ==
    IF kind = "bad_json" THEN "JSONDecodeError" ELSE "ValidationError"

\* The exception _get_ollama_reply raises for an outcome.
OllamaError(outcome) ==
    IF outcome = "timeout" THEN "OllamaTimeoutError"
    ELSE IF outcome = "request_error" THEN "OllamaRequestError"
    ELSE "OllamaProcessingError"

\* The outer except clauses, for an exception that leaves the while loop:
\* WebSocketDisconnect is logged and the handler ends; any other exception
\* reaches the clause whose first statement reads an attribute that the httpx
\* module does not have, and the AttributeError leaves the handler.
OuterClause(exception) ==
    IF exception = "WebSocketDisconnect" THEN "ended" ELSE "raised"

ChatInit ==
    /\ env = [intersightKey |-> TRUE, nexusCredentials |-> TRUE, login |-> TRUE,
              infraLogin |-> TRUE, embeddings |-> TRUE]
    /\ NoRouter
    /\ RouterIdle
    /\ ClassifierOff
    /\ ExpertOff
    /\ TasksOff
    /\ GetResponseOff
    /\ ThreadsOff
    /\ FollowUpsOff
    /\ wpc = "receive"
    /\ connected = TRUE
    /\ wmsg = NoChatMessage
    /\ wsent = <<>>
    /\ wlate = 0
    /\ handled = 0

\* receive_text returns a message: an invalid one is answered with the error
\* JSON at once, a valid one goes to Ollama.
ReceiveMessage(kind) ==
    /\ wpc = "receive"
    /\ connected
    /\ handled < MaxChat
    /\ handled' = handled + 1
    /\ wmsg' = [kind |-> kind, ollama |-> "none"]
    /\ IF kind = "valid"
       THEN /\ wpc' = "ollama"
            /\ UNCHANGED wsent
       ELSE /\ wsent' = Append(wsent, ErrorJson(InnerClause(ParseError(kind)), ParseError(kind)))
            /\ wpc' = "receive"
    /\ UNCHANGED <<connected, wlate, ovars, gvars, hvars, fvars>>

\* _get_ollama_reply ends and the reply or the error JSON is sent.
OllamaAnswers(outcome) ==
    /\ wpc = "ollama"
    /\ wmsg' = [wmsg EXCEPT !.ollama = outcome]
    /\ wsent' = Append(wsent,
                    IF outcome = "reply" THEN ReplyJson
                    ELSE ErrorJson(InnerClause(OllamaError(outcome)), OllamaError(outcome)))
    /\ wpc' = "receive"
    /\ UNCHANGED <<connected, wlate, handled, ovars, gvars, hvars, fvars>>

\* The client disconnects while the handler waits in receive_text.
ClientDisconnects ==
    /\ wpc = "receive"
    /\ connected
    /\ connected' = FALSE
    /\ UNCHANGED <<wpc, wmsg, wsent, wlate, handled, ovars, gvars, hvars, fvars>>

\* receive_text on the closed connection raises (WebSocketDisconnect the
\* first time, RuntimeError afterwards) inside the inner try: the clause that
\* catches it sends its error JSON, and what happens next depends on what
\* that send does.
ReceiveClosed(sendOutcome) ==
    /\ wpc = "receive"
    /\ ~connected
    /\ wlate < MaxLate
    /\ LET exception == IF wlate = 0 THEN "WebSocketDisconnect" ELSE "RuntimeError"
           clause == InnerClause(exception)
       IN  IF clause = "internal"
           THEN /\ wlate' = wlate + 1
                /\ wpc' = IF sendOutcome = "dropped" THEN "receive"
                          ELSE IF sendOutcome = "disconnect"
                               THEN OuterClause("WebSocketDisconnect")
                               ELSE OuterClause("RuntimeError")
           ELSE /\ wlate' = wlate
                /\ wpc' = OuterClause(exception)
    /\ UNCHANGED <<connected, wmsg, wsent, handled, ovars, gvars, hvars, fvars>>

ChatNext ==
    \/ \E kind \in MessageKinds : ReceiveMessage(kind)
    \/ \E outcome \in OllamaOutcomes : OllamaAnswers(outcome)
    \/ ClientDisconnects
    \/ \E sendOutcome \in LateSendOutcomes : ReceiveClosed(sendOutcome)

SpecChat == ChatInit /\ [][ChatNext]_vars

\* The last JSON object sent is the error JSON for the message just handled.
AnsweredWithError ==
    /\ Len(wsent) = handled
    /\ wsent[handled].error # ""

\* C30: when the client disconnects the handler stops without attempting to
\* send anything more on the connection and ends without raising; while the
\* client is connected, a message that is invalid or whose Ollama call fails
\* produces one error JSON and the loop goes on to the next message.
C30_DisconnectEndsQuietly ==
    /\ wlate = 0
    /\ wpc # "raised"
    /\ connected /\ wpc = "receive" /\ handled > 0
          /\ (wmsg.kind # "valid" \/ wmsg.ollama # "reply")
          => AnsweredWithError

====
